---- MODULE Spec2Model ----
(***************************************************************************)
(* Inline spoilers: the delimiter pairing and region materialisation of    *)
(* the reading view (a DOM tree), of the live editor (a windowed buffer    *)
(* with a syntax tree) and the hover coordination between the sub-ranges   *)
(* of one region.  Text is modelled character by character: a string is a  *)
(* sequence of one-character strings.                                      *)
(***************************************************************************)
EXTENDS Integers, Sequences, FiniteSets, TLC

VARIABLES
    mode,           \* which part of the plugin this behaviour exercises
    dom,            \* reading view: the DOM under workspace.containerEl
    passes,         \* reading view: number of updateReadingMode calls so far
    lastOp,         \* reading view: the operation that produced this state
    prevOp,         \* reading view: the operation before that one
    input,          \* reading view: the tree as rendered, before any operation
    before,         \* reading view: the tree before the last operation
    log,            \* reading view: what the last updateReadingMode did
    doc,            \* editor: the buffer
    syntax,         \* editor: the syntax tree of the buffer
    visibleRanges,  \* editor: view.visibleRanges
    decorations,    \* editor: the ranges of the current decoration set
    matches,        \* editor: the matches the last buildDecorations went through
    update,         \* editor: what the last update was
    prevDecorations, \* editor: the decorations before the last update
    edit,           \* editor: the buffer and the selection of the last command
    els,            \* editor DOM: the elements carrying data-inline-spoiler-group
    prevEls,        \* editor DOM: els before the last pointer event
    event,          \* editor DOM: the last pointer event handled
    editorPlugins,  \* plugin: the registry of editor extensions
    prevPlugins,    \* plugin: the registry before the last operation
    settings,       \* plugin: this.settings
    markers,        \* plugin: the marker classes of workspace.containerEl
    loaded,         \* plugin: onload has run and onunload has not
    version,        \* plugin: which of the two versions of the source runs
    pluginOp,       \* plugin: the last operation
    candidate,      \* sanity check: the slice it is given
    verdict,        \* sanity check: what it said about the slice
    scan,           \* one loop run step by step: its state between iterations
    applied,        \* the extensions the editors of the workspace run with
    preview,        \* the preview card of the settings tab (later version)
    pointer         \* editor DOM: where the pointer is and where it is going

readingVars == <<dom, passes, lastOp, prevOp, input, before, log>>
editorVars == <<doc, syntax, visibleRanges, decorations, matches, update,
                prevDecorations, edit>>
hoverVars == <<els, prevEls, event>>

pluginVars == <<editorPlugins, prevPlugins, settings, markers, loaded, version, pluginOp,
               applied, preview>>
guardVars == <<candidate, verdict>>
scanVars == <<scan>>
pointerVars == <<pointer>>
otherVars == <<pluginVars, guardVars, scanVars, pointerVars>>

vars == <<mode, readingVars, editorVars, hoverVars, pluginVars, guardVars, scanVars,
          pointerVars>>

(***************************************************************************)
(* Bounds of the model.                                                    *)
(***************************************************************************)
MaxLeafAtoms == 2   \* atoms ("||" or "a") per text node of a multi-node tree
MaxTextChars == 5   \* characters of a text given character by character
MaxTextAtoms == 6   \* atoms of a text given atom by atom
MaxDocChars == 5    \* characters of an editor buffer given character by character
MaxDocRegions == 2  \* regions of an editor buffer made of "||a||" only
MaxPasses == 2      \* updateReadingMode calls in one behaviour
MaxHoverGroups == 2 \* regions drawn in the editor while the pointer moves
MaxCommandChars == 3 \* length of a buffer the create-spoiler command is run on
MaxRegistry == 3    \* entries of the registry of editor extensions

(***************************************************************************)
(* Strings.                                                                *)
(***************************************************************************)
Pipe == "|"
Delim == <<Pipe, Pipe>>
Chars == {Pipe, "a"}
Atoms == {Delim, <<"a">>}

RECURSIVE Flatten(_)
Flatten(ss) == IF ss = <<>> THEN <<>> ELSE Head(ss) \o Flatten(Tail(ss))

SeqsUpTo(S, n) == UNION {[1..k -> S] : k \in 0..n}

CharStrings(n) == SeqsUpTo(Chars, n)
AtomStrings(n) == {Flatten(s) : s \in SeqsUpTo(Atoms, n)}

\* the buffer "||a||" k times: k regions
RECURSIVE RegionsDoc(_)
RegionsDoc(k) == IF k = 0 THEN <<>> ELSE <<Pipe, Pipe, "a", Pipe, Pipe>> \o RegionsDoc(k - 1)

Buffers == CharStrings(MaxDocChars) \cup {RegionsDoc(k) : k \in 0..MaxDocRegions}

LeafTexts == AtomStrings(MaxLeafAtoms) \cup {<<Pipe>>}
Texts == CharStrings(MaxTextChars) \cup AtomStrings(MaxTextAtoms)

IsDelimAt(s, i) == i >= 1 /\ i + 1 <= Len(s) /\ s[i] = Pipe /\ s[i + 1] = Pipe

\* String.prototype.lastIndexOf("||") in place of indexOf
lastIndexOf(s) ==
    IF \E i \in 1..Len(s) : IsDelimAt(s, i)
    THEN (CHOOSE i \in 1..Len(s) :
             IsDelimAt(s, i) /\ \A j \in (i + 1)..Len(s) : ~IsDelimAt(s, j)) - 1
    ELSE -1

\* String.prototype.indexOf("||"): the 0-based index of the first occurrence, or -1
indexOf(s) ==
    IF \E i \in 1..Len(s) : IsDelimAt(s, i)
    THEN (CHOOSE i \in 1..Len(s) :
             IsDelimAt(s, i) /\ \A j \in 1..(i - 1) : ~IsDelimAt(s, j)) - 1
    ELSE -1

(***************************************************************************)
(* The DOM: nodes are 1..Len(d.tag), node 1 is the container.  A node has  *)
(* a tag ("#text" for a text node, "spoiler" for a span carrying the class *)
(* inline_spoilers-spoiler), character data, children, a parent (0: none)  *)
(* and a number of registered click listeners.                             *)
(***************************************************************************)
Root == 1
TextTag == "#text"
SpoilerTag == "spoiler"

Nodes(d) == 1..Len(d.tag)

newNode(d, tag, data) ==
    [tag |-> Append(d.tag, tag),
     data |-> Append(d.data, data),
     kids |-> Append(d.kids, <<>>),
     parent |-> Append(d.parent, 0),
     listeners |-> Append(d.listeners, 0),
     revealed |-> Append(d.revealed, FALSE)]

IndexIn(s, x) == CHOOSE i \in 1..Len(s) : s[i] = x

RECURSIVE SetParents(_, _, _)
SetParents(par, list, p) ==
    IF list = <<>> THEN par
    ELSE SetParents([par EXCEPT ![Head(list)] = p], Tail(list), p)

\* Node.appendChild for each node of list, in order (the nodes are detached)
appendChildren(d, p, list) ==
    [d EXCEPT !.kids[p] = @ \o list, !.parent = SetParents(@, list, p)]

\* Node.insertBefore(list, ref): the detached nodes of list go before ref
insertBefore(d, list, ref) ==
    LET p == d.parent[ref]
        i == IndexIn(d.kids[p], ref)
    IN [d EXCEPT !.kids[p] = SubSeq(@, 1, i - 1) \o list \o SubSeq(@, i, Len(@)),
                 !.parent = SetParents(@, list, p)]

\* parentNode?.removeChild(node)
removeChild(d, node) ==
    LET p == d.parent[node] IN
    IF p = 0 THEN d
    ELSE [d EXCEPT !.kids[p] = SelectSeq(@, LAMBDA x : x # node),
                   !.parent[node] = 0]

\* the children lo..hi of p leave p (they stay detached until appended)
detachRange(d, p, lo, hi) ==
    [d EXCEPT !.kids[p] = SubSeq(@, 1, lo - 1) \o SubSeq(@, hi + 1, Len(@)),
              !.parent = SetParents(@, SubSeq(d.kids[p], lo, hi), 0)]

\* Text.splitText(offset): the node keeps the first offset characters, a new
\* text node with the rest becomes its next sibling
splitText(d, node, offset) ==
    LET s == d.data[node]
        d1 == newNode(d, TextTag, SubSeq(s, offset + 1, Len(s)))
        after == Len(d1.tag)
        p == d.parent[node]
        i == IndexIn(d.kids[p], node)
    IN [dom |-> [d1 EXCEPT !.data[node] = SubSeq(s, 1, offset),
                           !.kids[p] = SubSeq(@, 1, i) \o <<after>>
                                          \o SubSeq(@, i + 1, Len(@)),
                           !.parent[after] = p],
        after |-> after]

RECURSIVE IsInclusiveAncestor(_, _, _)
IsInclusiveAncestor(d, a, x) ==
    IF x = 0 THEN FALSE
    ELSE IF x = a THEN TRUE
    ELSE IsInclusiveAncestor(d, a, d.parent[x])

\* Element.closest(selector): the nearest inclusive ancestor whose tag is in kinds
RECURSIVE closest(_, _, _)
closest(d, e, kinds) ==
    IF e = 0 THEN 0
    ELSE IF d.tag[e] \in kinds THEN e
    ELSE closest(d, d.parent[e], kinds)

\* the descendants of e in document order (e itself is not one of them)
RECURSIVE Descendants(_, _)
RECURSIVE DescendantsOfList(_, _)
Descendants(d, e) == DescendantsOfList(d, d.kids[e])
DescendantsOfList(d, list) ==
    IF list = <<>> THEN <<>>
    ELSE <<Head(list)>> \o Descendants(d, Head(list)) \o DescendantsOfList(d, Tail(list))

\* HTMLElement.findAll / querySelectorAll: the matching descendants, in document order
findAll(d, e, kinds) == SelectSeq(Descendants(d, e), LAMBDA x : d.tag[x] \in kinds)

\* a walker rooted at the container where the code roots it at element
wholeDocumentText(d, element) == findAll(d, Root, {TextTag})

\* createTreeWalker(element, SHOW_TEXT), nextNode() until null
treeWalkerText(d, element) == findAll(d, element, {TextTag})

\* the literal text under e, in document order
RECURSIVE TextOfList(_, _)
TextOfList(d, list) ==
    IF list = <<>> THEN <<>>
    ELSE d.data[Head(list)] \o TextOfList(d, Tail(list))
TextOf(d, e) == TextOfList(d, treeWalkerText(d, e))

(***************************************************************************)
(* Reading mode.                                                           *)
(***************************************************************************)
SpoilerSelector == {SpoilerTag}
CodeSelector == {"code", "pre", "samp", "kbd"}
MathSelector == {"cm-inline-code", "math", "latex"}
AllowedSelector ==
    {"p", "li", "h1", "h2", "h3", "h4", "h5", "h6", "blockquote",
     "em", "strong", "b", "i", "a", "th", "td"}

\* the predicate without its test for an existing spoiler wrapper
IgnoredNoSpoiler(d, textNode) ==
    LET parent == d.parent[textNode] IN
    IF parent = 0 THEN FALSE
    ELSE IF closest(d, parent, CodeSelector) # 0 THEN TRUE
    ELSE IF closest(d, parent, MathSelector) # 0 THEN TRUE
    ELSE FALSE

isTextNodeInIgnoredWrapper(d, textNode) ==
    LET parent == d.parent[textNode] IN
    IF parent = 0 THEN FALSE
    ELSE IF closest(d, parent, SpoilerSelector) # 0 THEN TRUE
    ELSE IF closest(d, parent, CodeSelector) # 0 THEN TRUE
    ELSE IF closest(d, parent, MathSelector) # 0 THEN TRUE
    ELSE FALSE

Slice(node, isDelimiter) == [node |-> node, isDelimiter |-> isDelimiter]

\* an iteration that does nothing
splitStepIdle(d, node, slices) == [dom |-> d, node |-> node, slices |-> slices]

\* node = after, with the slice pushed
continueAfter(s, slices) == [dom |-> s.dom, node |-> s.after, slices |-> slices]

\* one iteration of the while loop of splitTextNodeByDelimiter: the tree, the
\* node to go on with (0 for null) and the slices after it
splitStep(d, node, slices) ==
    LET delimiterIndex == indexOf(d.data[node]) IN
    IF delimiterIndex = -1
    THEN [dom |-> d, node |-> 0, slices |-> Append(slices, Slice(node, FALSE))]
    ELSE IF delimiterIndex > 0
    THEN continueAfter(splitText(d, node, delimiterIndex),
                       Append(slices, Slice(node, FALSE)))
    ELSE IF Len(d.data[node]) > 2
    THEN continueAfter(splitText(d, node, 2), Append(slices, Slice(node, TRUE)))
    ELSE [dom |-> d, node |-> 0, slices |-> Append(slices, Slice(node, TRUE))]

\* while (node) { ... }: the iterations after the one that gave r
RECURSIVE splitTextNodeByDelimiter(_, _, _)
splitRest(r) ==
    IF r.node = 0 THEN [dom |-> r.dom, slices |-> r.slices]
    ELSE splitTextNodeByDelimiter(r.dom, r.node, r.slices)

splitTextNodeByDelimiter(d, node, slices) == splitRest(splitStep(d, node, slices))

\* for (const textNode of textNodes) splitTextNodeByDelimiter(textNode, slices)
RECURSIVE splitAll(_, _, _)
splitAll(d, textNodes, slices) ==
    IF textNodes = <<>> THEN [dom |-> d, slices |-> slices]
    ELSE LET r == splitTextNodeByDelimiter(d, Head(textNodes), slices) IN
         splitAll(r.dom, Tail(textNodes), r.slices)

\* the deepest node that contains both a and b
RECURSIVE CommonAncestor(_, _, _)
CommonAncestor(d, a, b) ==
    IF IsInclusiveAncestor(d, a, b) THEN a ELSE CommonAncestor(d, d.parent[a], b)

\* the child of anc on the path down to x
RECURSIVE ChildToward(_, _, _)
ChildToward(d, anc, x) ==
    IF d.parent[x] = anc THEN x ELSE ChildToward(d, anc, d.parent[x])

\* Node.cloneNode(false) of e, the nodes of list appended to the clone; the
\* clone is what goes to the fragment
cloneWith(d, e, list) ==
    LET d1 == newNode(d, d.tag[e], <<>>)
        c == Len(d1.tag)
        d2 == [d1 EXCEPT !.revealed[c] = d.revealed[e]]
    IN [dom |-> appendChildren(d2, c, list), frag |-> <<c>>]

\* the clone of the partially contained element e, holding what was extracted
\* from e
cloneInto(sub, e) == cloneWith(sub.dom, e, sub.frag)

\* Range.extractContents() of the range from (sc, so) to (ec, eo): boundary
\* points are (container element, 0-based child offset).  Contained nodes move
\* to the fragment, a partially contained element is cloned and the part of
\* it inside the range moves into the clone.
RECURSIVE extractContents(_, _, _, _, _)

\* the first partially contained child: its part from the start of the range on
firstPart(d, sc, so, first) ==
    IF first = 0 THEN [dom |-> d, frag |-> <<>>]
    ELSE cloneInto(extractContents(d, sc, so, first, Len(d.kids[first])), first)

\* the last partially contained child: its part up to the end of the range
lastPart(d, last, ec, eo) ==
    IF last = 0 THEN [dom |-> d, frag |-> <<>>]
    ELSE cloneInto(extractContents(d, last, 0, ec, eo), last)

withLast(frag, r3) == [dom |-> r3.dom, frag |-> frag \o r3.frag]

\* after the first part: the contained children lo..hi of common move, then
\* the last part is extracted
joinParts(r1, contained, common, lo, hi, last, ec, eo) ==
    withLast(r1.frag \o contained,
             lastPart(detachRange(r1.dom, common, lo, hi), last, ec, eo))

extractAcross(d, sc, so, ec, eo, common) ==
    LET first == IF sc = common THEN 0 ELSE ChildToward(d, common, sc)
        last == IF ec = common THEN 0 ELSE ChildToward(d, common, ec)
        lo == IF first = 0 THEN so + 1 ELSE IndexIn(d.kids[common], first) + 1
        hi == IF last = 0 THEN eo ELSE IndexIn(d.kids[common], last) - 1
    IN joinParts(firstPart(d, sc, so, first), SubSeq(d.kids[common], lo, hi),
                 common, lo, hi, last, ec, eo)

extractContents(d, sc, so, ec, eo) ==
    IF sc = ec
    THEN [dom |-> detachRange(d, sc, so + 1, eo),
          frag |-> SubSeq(d.kids[sc], so + 1, eo)]
    ELSE extractAcross(d, sc, so, ec, eo, CommonAncestor(d, sc, ec))

\* range.setStartAfter(startDelimiter); range.setEndBefore(endDelimiter)
RangeOf(d, startDelimiter, endDelimiter) ==
    [sc |-> d.parent[startDelimiter],
     so |-> IndexIn(d.kids[d.parent[startDelimiter]], startDelimiter),
     ec |-> d.parent[endDelimiter],
     eo |-> IndexIn(d.kids[d.parent[endDelimiter]], endDelimiter) - 1]

\* a range that never reports itself collapsed
neverCollapsed(range) == FALSE

\* range.collapsed: the start and the end are the same boundary point
collapsed(range) == range.sc = range.ec /\ range.so = range.eo

\* spoilerSpan.appendChild(contents); insertBefore(spoilerSpan, endDelimiter):
\* d holds the new span as its last node
insertSpan(d, contents, endDelimiter) ==
    insertBefore(appendChildren(d, Len(d.tag), contents), <<Len(d.tag)>>, endDelimiter)

\* const contents = range.extractContents(); createSpan(...)
wrapExtracted(ex, endDelimiter) ==
    insertSpan(newNode(ex.dom, SpoilerTag, <<>>), ex.frag, endDelimiter)

wrapRange(d, range, endDelimiter) ==
    IF collapsed(range) THEN d
    ELSE wrapExtracted(extractContents(d, range.sc, range.so, range.ec, range.eo),
                       endDelimiter)

\* if (!range.collapsed) { extractContents; createSpan; appendChild; insertBefore }
wrapContents(d, startDelimiter, endDelimiter) ==
    wrapRange(d, RangeOf(d, startDelimiter, endDelimiter), endDelimiter)

\* startDelimiter.parentNode?.removeChild(startDelimiter), and endDelimiter
\* only the opening delimiter is removed
removeStartOnly(d, startDelimiter, endDelimiter) == removeChild(d, startDelimiter)

removeDelimiters(d, startDelimiter, endDelimiter) ==
    removeChild(removeChild(d, startDelimiter), endDelimiter)

\* what the pairing loop knows about a pair when it closes it: the element
\* being scanned, the two delimiter nodes, the innermost allowed element
\* around each, whether each lies under the scanned element and in an ignored
\* element, and whether the range between them is collapsed
PairRecord(d, element, startDelimiter, endDelimiter) ==
    [element |-> element,
     scanned |-> d.tag[element],
     open |-> startDelimiter,
     close |-> endDelimiter,
     openUnder |-> IsInclusiveAncestor(d, element, startDelimiter),
     closeUnder |-> IsInclusiveAncestor(d, element, endDelimiter),
     openIgnored |-> closest(d, d.parent[startDelimiter],
                             SpoilerSelector \cup CodeSelector \cup MathSelector) # 0,
     closeIgnored |-> closest(d, d.parent[endDelimiter],
                              SpoilerSelector \cup CodeSelector \cup MathSelector) # 0,
     openIn |-> closest(d, d.parent[startDelimiter], AllowedSelector),
     closeIn |-> closest(d, d.parent[endDelimiter], AllowedSelector),
     collapsed |-> collapsed(RangeOf(d, startDelimiter, endDelimiter))]

\* for (const slice of slices) { ... }: slices from i on, openDelimiter 0 for null
RECURSIVE pairLoop(_, _, _, _, _, _)
pairLoop(d, element, slices, i, openDelimiter, pairs) ==
    IF i > Len(slices) THEN [dom |-> d, pairs |-> pairs]
    ELSE IF ~slices[i].isDelimiter
    THEN pairLoop(d, element, slices, i + 1, openDelimiter, pairs)
    ELSE IF openDelimiter = 0
    THEN pairLoop(d, element, slices, i + 1, slices[i].node, pairs)
    ELSE LET startDelimiter == openDelimiter
             endDelimiter == slices[i].node
             d1 == wrapContents(d, startDelimiter, endDelimiter)
         IN pairLoop(removeDelimiters(d1, startDelimiter, endDelimiter),
                     element, slices, i + 1, 0,
                     Append(pairs, PairRecord(d, element, startDelimiter, endDelimiter)))

collectTextNodes(d, element) ==
    SelectSeq(treeWalkerText(d, element),
              LAMBDA textNode : ~isTextNodeInIgnoredWrapper(d, textNode))

\* the pairing loop over the slices the split left
pairSlices(sp, element, pairs) == pairLoop(sp.dom, element, sp.slices, 1, 0, pairs)

wrapSpoilers(d, element, pairs) ==
    pairSlices(splitAll(d, collectTextNodes(d, element), <<>>), element, pairs)

\* for (const elem of allowedElems) wrapSpoilers(elem); calls records the
\* element of every call and the tree before and after it
RECURSIVE wrapAll(_, _, _, _)
wrapNext(d, allowedElems, calls, r) ==
    wrapAll(r.dom, Tail(allowedElems), r.pairs,
            Append(calls, [element |-> Head(allowedElems),
                           before |-> d, after |-> r.dom]))

wrapAll(d, allowedElems, pairs, calls) ==
    IF allowedElems = <<>> THEN [dom |-> d, pairs |-> pairs, calls |-> calls]
    ELSE wrapNext(d, allowedElems, calls, wrapSpoilers(d, Head(allowedElems), pairs))

\* plugin.registerDomEvent(spoiler, 'click', ...) for each spoiler
RECURSIVE registerDomEvents(_, _)
registerDomEvents(d, spoilers) ==
    IF spoilers = <<>> THEN d
    ELSE registerDomEvents([d EXCEPT !.listeners[Head(spoilers)] = @ + 1],
                           Tail(spoilers))

\* const spoilers = element.findAll(".inline_spoilers-spoiler"); for (...)
registerAll(r, element) ==
    [dom |-> registerDomEvents(r.dom, findAll(r.dom, element, SpoilerSelector)),
     pairs |-> r.pairs,
     calls |-> r.calls]

\* spoiler.classList.toggle("inline_spoilers-revealed")
toggleRevealed(d, spoiler) == [d EXCEPT !.revealed[spoiler] = ~@]

\* the n click listeners registered on the node run one after the other
RECURSIVE runListeners(_, _, _)
runListeners(d, node, n) ==
    IF n = 0 THEN d ELSE runListeners(toggleRevealed(d, node), node, n - 1)

\* a click on the target: the event runs the listeners of the target and
\* bubbles to its ancestors
RECURSIVE click(_, _)
click(d, node) ==
    IF node = 0 THEN d
    ELSE click(runListeners(d, node, d.listeners[node]), d.parent[node])

updateReadingMode(d, element) ==
    registerAll(wrapAll(d, findAll(d, element, AllowedSelector), <<>>, <<>>), element)

\* one iteration of the loop of unloadReadingMode: the spoiler is replaced by
\* "||", its children, "||"
unwrapSpoiler(d, spoiler) ==
    LET parent == d.parent[spoiler]
        d1 == newNode(d, TextTag, Delim)
        t1 == Len(d1.tag)
        d2 == newNode(d1, TextTag, Delim)
        t2 == Len(d2.tag)
        children == d.kids[spoiler]
        fragment == <<t1>> \o children \o <<t2>>
        d3 == [d2 EXCEPT !.kids[spoiler] = <<>>]
    IN IF parent = 0 THEN d3
       ELSE removeChild(insertBefore(d3, fragment, spoiler), spoiler)

RECURSIVE unwrapAll(_, _)
unwrapAll(d, spoilers) ==
    IF spoilers = <<>> THEN d
    ELSE unwrapAll(unwrapSpoiler(d, Head(spoilers)), Tail(spoilers))

unloadReadingMode(d) == unwrapAll(d, findAll(d, Root, SpoilerSelector))

(***************************************************************************)
(* Editor mode.  The buffer is a string, positions are 0-based offsets.    *)
(* The syntax tree is a sequence of nodes [name, from, to, parent], node 1 *)
(* the top node; a decoration range is [from, to, isDelimiter, group],     *)
(* group n standing for the attribute value "spoiler-n".                   *)
(***************************************************************************)
sliceDoc(buffer, from, to) == SubSeq(buffer, from + 1, to)

startsWithDelim(s) == IsDelimAt(s, 1)
endsWithDelim(s) == IsDelimAt(s, Len(s) - 1)

\* the pattern with "*?" for "+?": nothing between the tokens matches too
matchAtAllowEmpty(text, i) ==
    IF IsDelimAt(text, i + 1) /\ \E j \in (i + 2)..Len(text) : IsDelimAt(text, j + 1)
    THEN (CHOOSE j \in (i + 2)..Len(text) :
             IsDelimAt(text, j + 1)
             /\ \A k \in (i + 2)..(j - 1) : ~IsDelimAt(text, k + 1)) + 2 - i
    ELSE 0

\* SPOILER_REGEX = /\|\|([\s\S]+?)\|\|/g tried at the 0-based index i of text:
\* "||", then as few characters as possible but at least one, then "||".
\* The length of the match, or 0 when there is none at i.
matchAt(text, i) ==
    IF IsDelimAt(text, i + 1) /\ \E j \in (i + 3)..Len(text) : IsDelimAt(text, j + 1)
    THEN (CHOOSE j \in (i + 3)..Len(text) :
             IsDelimAt(text, j + 1)
             /\ \A k \in (i + 3)..(j - 1) : ~IsDelimAt(text, k + 1)) + 2 - i
    ELSE 0

\* an exec that leaves lastIndex at the closing token, which then opens the
\* next match
execReuseClose(text, lastIndex) ==
    IF lastIndex <= Len(text) /\ \E i \in lastIndex..Len(text) : matchAt(text, i) > 0
    THEN LET i == CHOOSE i \in lastIndex..Len(text) :
                     matchAt(text, i) > 0
                     /\ \A k \in lastIndex..(i - 1) : matchAt(text, k) = 0
         IN [found |-> TRUE, index |-> i, length |-> matchAt(text, i),
             lastIndex |-> i + matchAt(text, i) - 2]
    ELSE [found |-> FALSE, index |-> 0, length |-> 0, lastIndex |-> 0]

\* SPOILER_REGEX.exec(text) with the regex's lastIndex: the leftmost match at
\* or after lastIndex; null (found FALSE) resets lastIndex to 0
exec(text, lastIndex) ==
    IF lastIndex <= Len(text) /\ \E i \in lastIndex..Len(text) : matchAt(text, i) > 0
    THEN LET i == CHOOSE i \in lastIndex..Len(text) :
                     matchAt(text, i) > 0
                     /\ \A k \in lastIndex..(i - 1) : matchAt(text, k) = 0
         IN [found |-> TRUE, index |-> i, length |-> matchAt(text, i),
             lastIndex |-> i + matchAt(text, i)]
    ELSE [found |-> FALSE, index |-> 0, length |-> 0, lastIndex |-> 0]

IgnoredNames ==
    {"InlineCode", "FencedCode", "CodeText", "InlineMath", "Comment",
     "CommentBlock", "HTMLTag", "HTMLBlock"}

\* tree.resolveInner(pos): the innermost node that covers pos on both sides,
\* the top node when no other does
resolveInner(tree, pos) ==
    LET covering == {n \in 2..Len(tree) : tree[n].from < pos /\ pos < tree[n].to} IN
    IF covering = {} THEN 1
    ELSE CHOOSE n \in covering :
             \A m \in covering : tree[n].to - tree[n].from <= tree[m].to - tree[m].from

\* while (node) { if (name.includes(...)) return true; node = node.parent; }
RECURSIVE walkUp(_, _)
walkUp(tree, node) ==
    IF node = 0 THEN FALSE
    ELSE IF tree[node].name \in IgnoredNames THEN TRUE
    ELSE walkUp(tree, tree[node].parent)

check(tree, pos) == walkUp(tree, resolveInner(tree, pos))

Max(a, b) == IF a >= b THEN a ELSE b

\* only the start of the token is looked up in the syntax tree
checkStartOnly(tree, from, to) == check(tree, from)

isDelimiterInIgnoredSyntax(tree, from, to) ==
    LET endPos == Max(to - 1, from) IN
    check(tree, from) \/ check(tree, endPos)

Range(from, to, isDelimiter, group) ==
    [from |-> from, to |-> to, isDelimiter |-> isDelimiter, group |-> group]

\* a content range that starts inside the opening delimiter
contentFromOpen(start, end, group) == Range(start + 1, end - 2, FALSE, group)

contentRange(start, end, group) == Range(start + 2, end - 2, FALSE, group)

\* the pushes without the one of the closing delimiter
pushWithoutClose(ranges, start, end, group) ==
    ranges \o <<Range(start, start + 2, TRUE, group),
                contentRange(start, end, group)>>

\* the three ranges.push of one accepted match
pushRanges(ranges, start, end, group) ==
    ranges \o <<Range(start, start + 2, TRUE, group),
                contentRange(start, end, group),
                Range(end - 2, end, TRUE, group)>>

\* the text from the start of the window to the end of the buffer
sliceToEnd(buffer, from, to) == SubSeq(buffer, from + 1, Len(buffer))

\* const text = view.state.sliceDoc(from, to)
windowText(buffer, from, to) == sliceDoc(buffer, from, to)

\* a counter that is never advanced
sameGroupId(groupId) == groupId

\* groupId++ in `spoiler-${groupId++}`: the value of the counter afterwards
nextGroupId(groupId) == groupId + 1

\* if (!slice.startsWith("||") && !slice.endsWith("||")) continue;
failsSanityCheck(slice) == ~startsWithDelim(slice) /\ ~endsWithDelim(slice)

\* the two "continue" of the loop body: the match [start, end) emits nothing
skipMatch(buffer, tree, start, end) ==
    \/ failsSanityCheck(sliceDoc(buffer, start, end))
    \/ isDelimiterInIgnoredSyntax(tree, start, start + 2)
    \/ isDelimiterInIgnoredSyntax(tree, end - 2, end)

\* the loop body from the sanity check on: the ranges after the match
emitMatch(ranges, buffer, tree, start, end, group) ==
    IF skipMatch(buffer, tree, start, end) THEN ranges
    ELSE pushRanges(ranges, start, end, group)

\* while ((match = SPOILER_REGEX.exec(text)) !== null) { ... } for one window;
\* st is [ranges, groupId, lastIndex, matches]; matches records every match
RECURSIVE matchLoop(_, _, _, _, _)
\* the body of the loop for the match the test found
matchBody(buffer, tree, text, from, st, match) ==
    LET start == from + match.index
        end == start + match.length
        group == st.groupId
        skipped == skipMatch(buffer, tree, start, end)
    IN [ranges |-> emitMatch(st.ranges, buffer, tree, start, end, group),
        groupId |-> nextGroupId(st.groupId),
        lastIndex |-> match.lastIndex,
        matches |-> Append(st.matches,
                           [start |-> start, end |-> end, group |-> group,
                            window |-> [from |-> from, to |-> from + Len(text)],
                            skipped |-> skipped])]

matchLoop(buffer, tree, text, from, st) ==
    LET match == exec(text, st.lastIndex) IN
    IF ~match.found THEN [st EXCEPT !.lastIndex = match.lastIndex]
    ELSE matchLoop(buffer, tree, text, from,
                   matchBody(buffer, tree, text, from, st, match))

\* for (const { from, to } of view.visibleRanges) { ... }
RECURSIVE windowsLoop(_, _, _, _)
windowsLoop(buffer, tree, windows, st) ==
    IF windows = <<>> THEN st
    ELSE LET w == Head(windows)
             text == windowText(buffer, w.from, w.to)
         IN windowsLoop(buffer, tree, Tail(windows),
                        matchLoop(buffer, tree, text, w.from,
                                  [st EXCEPT !.lastIndex = 0]))

\* ranges.sort((a, b) => a.from - b.from): a stable sort by from
RECURSIVE insertSorted(_, _)
insertSorted(sorted, r) ==
    IF sorted = <<>> THEN <<r>>
    ELSE IF Head(sorted).from <= r.from
    THEN <<Head(sorted)>> \o insertSorted(Tail(sorted), r)
    ELSE <<r>> \o sorted

RECURSIVE sortLoop(_, _)
sortLoop(ranges, sorted) ==
    IF ranges = <<>> THEN sorted
    ELSE sortLoop(Tail(ranges), insertSorted(sorted, Head(ranges)))

sortByFrom(ranges) == sortLoop(ranges, <<>>)

\* buildDecorations: the ranges handed to the RangeSetBuilder, in the order
\* they are added, and the matches the scan went through
finish(st) == [decorations |-> sortByFrom(st.ranges), matches |-> st.matches]

buildDecorations(buffer, tree, windows) ==
    finish(windowsLoop(buffer, tree, windows,
                       [ranges |-> <<>>, groupId |-> 0, lastIndex |-> 0,
                        matches |-> <<>>]))

\* an update that rebuilds on docChanged only
updateOnDocChanged(old, buffer, tree, windows, docChanged, viewportChanged) ==
    IF docChanged THEN buildDecorations(buffer, tree, windows) ELSE old

\* update(update): if (update.docChanged || update.viewportChanged)
\* this.decorations = this.buildDecorations(update.view); old is what the
\* plugin holds, the rest is the view after the update
onUpdate(old, buffer, tree, windows, docChanged, viewportChanged) ==
    IF docChanged \/ viewportChanged
    THEN buildDecorations(buffer, tree, windows)
    ELSE old

\* editor.getSelection(): the text between the offsets from and to
getSelection(buffer, from, to) == SubSeq(buffer, from + 1, to)

\* editor.replaceSelection(replacement)
replaceSelection(buffer, from, to, replacement) ==
    SubSeq(buffer, 1, from) \o replacement \o SubSeq(buffer, to + 1, Len(buffer))

\* a command that puts the delimiter pair in place of the selection
wrapNothing(buffer, from, to) == replaceSelection(buffer, from, to, Delim \o Delim)

\* create-spoiler: editor.replaceSelection(`||${selection}||`)
createSpoiler(buffer, from, to) ==
    replaceSelection(buffer, from, to, Delim \o getSelection(buffer, from, to) \o Delim)

(***************************************************************************)
(* Hover coordination.  An element of the editor DOM that carries the      *)
(* attribute data-inline-spoiler-group is [group, hover]: hover says       *)
(* whether it has the class inline_spoilers-editor-spoiler-hover.  A       *)
(* pointer event is known by the group of the tagged element closest to    *)
(* its target and to its related target.                                   *)
(***************************************************************************)
NoGroup == -1     \* el?.dataset.inlineSpoilerGroup is undefined: no tagged element
NoTarget == -2    \* event.relatedTarget is null

\* the elements the editor draws for a decoration set: one per range
elementsOf(ranges) == [i \in 1..Len(ranges) |-> [group |-> ranges[i].group, hover |-> FALSE]]

\* querySelector where the code has querySelectorAll: the first element only
toggleFirst(elements, group, reveal) ==
    IF \E i \in 1..Len(elements) : elements[i].group = group
    THEN LET first == CHOOSE i \in 1..Len(elements) :
                          elements[i].group = group
                          /\ \A j \in 1..(i - 1) : elements[j].group # group
         IN [elements EXCEPT ![first].hover = reveal]
    ELSE elements

\* querySelectorAll(`[data-inline-spoiler-group="${group}"]`).forEach(toggle)
toggleGroup(elements, group, reveal) ==
    [i \in 1..Len(elements) |->
        IF elements[i].group = group
        THEN [elements[i] EXCEPT !.hover = reveal]
        ELSE elements[i]]

\* what a handler leaves: the elements, and whether it threw
Handled(elements, threw) == [elements |-> elements, threw |-> threw]

\* el.dataset without the "?.": a TypeError when closest returned null
handleMouseOverUnguarded(elements, target) ==
    Handled(toggleGroup(elements, target, TRUE), target = NoGroup)

\* const group = el?.dataset.inlineSpoilerGroup; if (!group) return;
\* this.toggleGroup(group, true)
handleMouseOver(elements, target) ==
    LET group == target IN
    IF group = NoGroup THEN Handled(elements, FALSE)
    ELSE Handled(toggleGroup(elements, group, TRUE), FALSE)

\* a handler that leaves the class where it is
ignoreMouseOut(elements, target, related) == Handled(elements, FALSE)

\* as handleMouseOver, and if (related?.closest(`[...="${group}"]`)) return
handleMouseOut(elements, target, related) ==
    LET group == target IN
    IF group = NoGroup THEN Handled(elements, FALSE)
    ELSE IF related = group THEN Handled(elements, FALSE)
    ELSE Handled(toggleGroup(elements, group, FALSE), FALSE)

(***************************************************************************)
(* The plugin: the registry of editor extensions (a module-level array),   *)
(* the settings, and the marker classes of workspace.containerEl.          *)
(***************************************************************************)
spoilerEditorPlugin == "spoilerEditorPlugin"
RevealedClass == "inline_spoilers-revealed"
CustomClass == "inline_spoilers-custom-enabled"

\* Array.prototype.includes
includes(list, x) == \E i \in 1..Len(list) : list[i] = x

\* Array.prototype.indexOf: the 0-based index of the first occurrence, or -1
indexOfItem(list, x) ==
    IF includes(list, x)
    THEN (CHOOSE i \in 1..Len(list) :
             list[i] = x /\ \A j \in 1..(i - 1) : list[j] # x) - 1
    ELSE -1

\* Array.prototype.splice(index, 1)
splice(list, index) == SubSeq(list, 1, index) \o SubSeq(list, index + 2, Len(list))

\* if (!editorPlugins.includes(spoilerEditorPlugin)) editorPlugins.push(...)
loadEditorPlugin(plugins) ==
    IF ~includes(plugins, spoilerEditorPlugin)
    THEN Append(plugins, spoilerEditorPlugin)
    ELSE plugins

\* a notification that reaches no editor
staleOptions(current, plugins) == current

\* workspace.updateOptions(): the editors are reconfigured with the
\* extensions the registered array holds now
updateOptions(current, plugins) == plugins

\* this.registerEditorExtension(editorPlugins): the editors run with the
\* extensions of the array handed over
registerEditorExtension(plugins) == plugins

\* an unregistration that leaves the registry as it is
keepRegistered(plugins) == plugins

\* const index = editorPlugins.indexOf(...); if (index !== -1) splice(index, 1)
unloadEditorPlugin(plugins) ==
    LET index == indexOfItem(plugins, spoilerEditorPlugin) IN
    IF index # -1 THEN splice(plugins, index) ELSE plugins

DefaultColor == "#a78bfa"

\* the later version's; the earlier one has the first two fields only
DEFAULT_SETTINGS ==
    [showAllSpoilers |-> FALSE, enableEditorMode |-> FALSE, enableCustomStyle |-> FALSE,
     customColor |-> DefaultColor, blurAmount |-> 2]

\* Object.assign({}, defaults, data)
assign(defaults, data) ==
    [k \in DOMAIN defaults |-> IF k \in DOMAIN data THEN data[k] ELSE defaults[k]]

\* HTMLElement.toggleClass(cls, value)
toggleClass(classes, cls, value) ==
    IF value THEN classes \cup {cls} ELSE classes \ {cls}

\* loadSettings: the settings, the classes of the container and the registry
\* it leaves; data is what loadData() returns
loadSettings(plugins, classes, data) ==
    LET loadedSettings == assign(DEFAULT_SETTINGS, data) IN
    [settings |-> loadedSettings,
     markers |-> toggleClass(classes, RevealedClass, loadedSettings.showAllSpoilers),
     plugins |-> IF loadedSettings.enableEditorMode
                 THEN Append(plugins, spoilerEditorPlugin)
                 ELSE plugins]

\* the custom properties applyCustomStyle sets on the style of its host
StyleProps ==
    {"--inline-spoilers-mask", "--inline-spoilers-hover-mask",
     "--inline-spoilers-text", "--inline-spoilers-text-revealed",
     "--inline-spoilers-blur"}

\* clearCustomStyle(target): the classes and style properties it leaves
clearCustomStyle(classes) == toggleClass(classes \ StyleProps, CustomClass, FALSE)

\* an applyCustomStyle that sets and never clears
applyNeverClears(classes, st) ==
    IF st.enableCustomStyle
    THEN toggleClass(classes \cup StyleProps, CustomClass, TRUE)
    ELSE classes

\* applyCustomStyle(target) on a host: the five properties are set to
\* values made of the colour and the blur amount, none of them the empty
\* string, so each setProperty leaves its property on the host
applyCustomStyle(classes, st) ==
    IF st.enableCustomStyle
    THEN toggleClass(classes \cup StyleProps, CustomClass, TRUE)
    ELSE clearCustomStyle(classes)

\* containerEl.classList.remove("inline_spoilers-revealed")
removeClass(classes, cls) == classes \ {cls}

\* the preview card: whether the plugin holds one (this.previewEl) and the
\* classes and style properties it carries
NoPreview == [attached |-> FALSE, markers |-> {}]

\* if (!this.previewEl) return; toggleClass(revealed, showAllSpoilers);
\* this.applyCustomStyle(this.previewEl)
refreshPreview(card, st) ==
    IF ~card.attached THEN card
    ELSE [card EXCEPT !.markers =
              applyCustomStyle(toggleClass(@, RevealedClass, st.showAllSpoilers), st)]

\* this.previewEl = previewEl; this.refreshPreview()
attachPreview(previewEl, st) ==
    refreshPreview([attached |-> TRUE, markers |-> previewEl], st)

\* Math.min
min(a, b) == IF a <= b THEN a ELSE b

\* Number.isFinite(num) ? Math.min(10, Math.max(0, num)) : 2, for the
\* number the text of the input stands for
clampBlur(num) == IF num.finite THEN min(10, Max(0, num.value)) ELSE 2

(***************************************************************************)
(* The rendered trees the reading view starts from.                        *)
(***************************************************************************)
MakeDom(tags, datas, kidss, parents) ==
    [tag |-> tags, data |-> datas, kids |-> kidss, parent |-> parents,
     listeners |-> [i \in 1..Len(tags) |-> 0],
     revealed |-> [i \in 1..Len(tags) |-> FALSE]]

\* <div><p>t1<X>t2</X>t3</p></div>
InlineTree(X, t1, t2, t3) ==
    MakeDom(<<"div", "p", TextTag, X, TextTag, TextTag>>,
            <<<<>>, <<>>, t1, <<>>, t2, t3>>,
            <<<<2>>, <<3, 4, 6>>, <<>>, <<5>>, <<>>, <<>>>>,
            <<0, 1, 2, 2, 4, 2>>)

\* <div><Y><p>t1</p><p>t2</p></Y></div>
BlockTree(Y, t1, t2) ==
    MakeDom(<<"div", Y, "p", TextTag, "p", TextTag>>,
            <<<<>>, <<>>, <<>>, t1, <<>>, t2>>,
            <<<<2>>, <<3, 5>>, <<4>>, <<>>, <<6>>, <<>>>>,
            <<0, 1, 2, 3, 2, 5>>)

\* <div><p>t</p></div>
ParagraphTree(t) ==
    MakeDom(<<"div", "p", TextTag>>,
            <<<<>>, <<>>, t>>,
            <<<<2>>, <<3>>, <<>>>>,
            <<0, 1, 2>>)

\* <div></div>
EmptyTree == MakeDom(<<"div">>, <<<<>>>>, <<<<>>>>, <<0>>)

InlineKinds == {"em", "code", "math"}
BlockKinds == {"div", "blockquote"}

RenderedTrees ==
    {InlineTree(X, t1, t2, t3) :
        X \in InlineKinds, t1 \in LeafTexts, t2 \in LeafTexts, t3 \in LeafTexts}
    \cup {BlockTree(Y, t1, t2) : Y \in BlockKinds, t1 \in LeafTexts, t2 \in LeafTexts}
    \cup {ParagraphTree(t) : t \in Texts}

\* the part of a DOM that is the tree: tags, text and child lists
TreeOf(d) == [tag |-> d.tag, data |-> d.data, kids |-> d.kids]

NoLog == [pairs |-> <<>>, calls |-> <<>>]

(***************************************************************************)
(* The buffers, syntax trees and viewports the editor starts from.         *)
(***************************************************************************)
Window(from, to) == [from |-> from, to |-> to]

\* the whole buffer, or two windows that meet at k, in either order
Viewports(len) ==
    {<<Window(0, len)>>}
    \cup {<<Window(0, k), Window(k, len)>> : k \in 1..(len - 1)}
    \cup {<<Window(k, len), Window(0, k)>> : k \in 1..(len - 1)}

SyntaxNode(name, from, to, parent) ==
    [name |-> name, from |-> from, to |-> to, parent |-> parent]

PlainSyntax(len) == <<SyntaxNode("Document", 0, len, 0)>>

\* one node under the top node
OneNodeSyntax(len, name, f, t) ==
    <<SyntaxNode("Document", 0, len, 0), SyntaxNode(name, f, t, 1)>>

\* a comment block that holds an emphasis
NestedSyntax(len, f, t) ==
    <<SyntaxNode("Document", 0, len, 0), SyntaxNode("CommentBlock", f, t, 1),
      SyntaxNode("Emphasis", f, t, 2)>>

NodeSpans(len) ==
    {<<0, t>> : t \in 2..len} \cup {<<f, len>> : f \in 0..(len - 2)}

SyntaxTrees(len) ==
    {PlainSyntax(len)}
    \cup {OneNodeSyntax(len, "InlineCode", sp[1], sp[2]) : sp \in NodeSpans(len)}
    \cup {NestedSyntax(len, f, len) : f \in 0..(len - 2)}

\* where the two windows of a viewport meet, 0 for a single window
Cut(w) == IF Len(w) = 1 THEN 0 ELSE IF w[1].from = 0 THEN w[1].to ELSE w[1].from

\* the viewports one scroll step away
Scrolled(w, len) ==
    {v \in Viewports(len) : v # w /\ Cut(v) - Cut(w) \in {-1, 0, 1}}

NoEvent == [type |-> "none", target |-> NoGroup, related |-> NoTarget, threw |-> FALSE]

\* the notes open in the reading view while the plugin is used
PluginTrees ==
    {ParagraphTree(<<"a">>),
     ParagraphTree(Delim \o <<"a">> \o Delim),
     ParagraphTree(Delim \o <<"a">> \o Delim \o Delim \o <<"a">> \o Delim),
     InlineTree("em", Delim, <<"a">>, Delim)}

\* the elements the markdown post processor is called with: the reading view
\* or one of its sections
Sections(d) == {Root} \cup {d.kids[Root][i] : i \in 1..Len(d.kids[Root])}

\* the wrappers on the page
Spoilers(d) == {n \in Nodes(d) : d.tag[n] = SpoilerTag /\ IsInclusiveAncestor(d, Root, n)}

(***************************************************************************)
(* What loadData() can return: nothing saved yet, or the settings saved    *)
(* by the version of the plugin that runs.                                 *)
(***************************************************************************)
Versions == {"main", "custom-style"}

SettingKeys(v) ==
    IF v = "main" THEN {"showAllSpoilers", "enableEditorMode"}
    ELSE {"showAllSpoilers", "enableEditorMode", "enableCustomStyle"}

\* the saved data may hold a colour and a blur amount in the later version
SavedData(v) ==
    {<<>>} \cup [SettingKeys(v) -> BOOLEAN]
    \cup (IF v = "main" THEN {}
          ELSE {switches @@ [customColor |-> "#ff0000", blurAmount |-> 10] :
                    switches \in [SettingKeys(v) -> BOOLEAN]})

\* what the user picks in the colour input (the empty string: no colour)
\* and what the user types in the number input
ColorInputs == {"", DefaultColor, "#ff0000"}
BlurInputs ==
    {[finite |-> TRUE, value |-> n] : n \in {-1, 0, 11}}
    \cup {[finite |-> FALSE, value |-> 0]}

(***************************************************************************)
(* The state machine.                                                      *)
(***************************************************************************)
ReadingIdle ==
    /\ dom = EmptyTree
    /\ passes = 0
    /\ lastOp = "render"
    /\ prevOp = "render"
    /\ input = EmptyTree
    /\ before = EmptyTree
    /\ log = NoLog

\* no command has run
NoEdit == [ran |-> FALSE, prev |-> <<>>, from |-> 0, to |-> 0]

EditorIdle ==
    /\ doc = <<>>
    /\ syntax = PlainSyntax(0)
    /\ visibleRanges = <<Window(0, 0)>>
    /\ decorations = <<>>
    /\ matches = <<>>
    /\ update = "none"
    /\ prevDecorations = <<>>
    /\ edit = NoEdit

HoverIdle ==
    /\ els = <<>>
    /\ prevEls = <<>>
    /\ event = NoEvent

\* the last operation of the plugin and the node it was aimed at, if any
Op(name, target) == [name |-> name, target |-> target]
NoOp == Op("none", 0)

\* the pointer rests on the element at position `on` of the page (0: on no tagged
\* element); while it moves, `to` is the element it moves to
Pointer(on, to, moving) == [on |-> on, to |-> to, moving |-> moving]

PointerIdle == pointer = Pointer(0, 0, FALSE)

\* the state buildDecorations starts its loops with
StartSt == [ranges |-> <<>>, groupId |-> 0, lastIndex |-> 0, matches |-> <<>>]

\* no loop is being stepped through
NoScan ==
    [loop |-> "none", dom |-> EmptyTree, node |-> 0, slices |-> <<>>, text |-> <<>>,
     st |-> StartSt, measure |-> 0, prevMeasure |-> 0, running |-> FALSE]

ScanIdle == scan = NoScan

PluginIdle ==
    /\ editorPlugins = <<>>
    /\ prevPlugins = <<>>
    /\ settings = DEFAULT_SETTINGS
    /\ markers = {}
    /\ loaded = FALSE
    /\ version = "main"
    /\ pluginOp = NoOp
    /\ applied = <<>>
    /\ preview = NoPreview

GuardIdle ==
    /\ candidate = <<>>
    /\ verdict = [checked |-> FALSE, ranges |-> <<>>]

\* a note rendered in the reading view
InitReading ==
    /\ mode = "reading"
    /\ dom \in RenderedTrees
    /\ passes = 0
    /\ lastOp = "render"
    /\ prevOp = "render"
    /\ input = dom
    /\ before = dom
    /\ log = NoLog
    /\ EditorIdle
    /\ HoverIdle
    /\ PluginIdle
    /\ GuardIdle
    /\ ScanIdle
    /\ PointerIdle

\* new SpoilerEditorPlugin(view): the constructor builds the decorations
InitEditor ==
    /\ mode = "editor"
    /\ doc \in Buffers
    /\ syntax \in SyntaxTrees(Len(doc))
    /\ visibleRanges \in Viewports(Len(doc))
    /\ \E b \in {buildDecorations(doc, syntax, visibleRanges)} :
         /\ decorations = b.decorations
         /\ matches = b.matches
    /\ update = "construct"
    /\ prevDecorations = <<>>
    /\ edit = NoEdit
    /\ ReadingIdle
    /\ HoverIdle
    /\ PluginIdle
    /\ GuardIdle
    /\ ScanIdle
    /\ PointerIdle

\* the editor has drawn the decorations of k regions; the pointer is elsewhere
InitHover ==
    /\ mode = "hover"
    /\ \E k \in 0..MaxHoverGroups :
         els = elementsOf(buildDecorations(RegionsDoc(k), PlainSyntax(5 * k),
                                           <<Window(0, 5 * k)>>).decorations)
    /\ prevEls = els
    /\ event = NoEvent
    /\ ReadingIdle
    /\ EditorIdle
    /\ PluginIdle
    /\ GuardIdle
    /\ ScanIdle
    /\ PointerIdle

\* the module is loaded: the registry is empty, no operation has run
InitRegistry ==
    /\ mode = "registry"
    /\ editorPlugins = <<>>
    /\ prevPlugins = <<>>
    /\ settings = DEFAULT_SETTINGS
    /\ markers = {}
    /\ loaded = FALSE
    /\ version \in Versions
    /\ pluginOp = NoOp
    /\ applied = <<>>
    /\ preview = NoPreview
    /\ ReadingIdle
    /\ EditorIdle
    /\ HoverIdle
    /\ GuardIdle
    /\ ScanIdle
    /\ PointerIdle

\* the loop body is about to run on a slice, whatever put it there
InitGuard ==
    /\ mode = "guard"
    /\ candidate \in CharStrings(MaxDocChars)
    /\ verdict = [checked |-> FALSE, ranges |-> <<>>]
    /\ ReadingIdle
    /\ EditorIdle
    /\ HoverIdle
    /\ PluginIdle
    /\ ScanIdle
    /\ PointerIdle

\* the plugin is installed and not yet enabled; a note is open
InitPlugin ==
    /\ mode = "plugin"
    /\ dom \in PluginTrees
    /\ passes = 0
    /\ lastOp = "render"
    /\ prevOp = "render"
    /\ input = dom
    /\ before = dom
    /\ log = NoLog
    /\ editorPlugins = <<>>
    /\ prevPlugins = <<>>
    /\ settings = DEFAULT_SETTINGS
    /\ markers = {}
    /\ loaded = FALSE
    /\ version \in Versions
    /\ pluginOp = NoOp
    /\ applied = <<>>
    /\ preview = NoPreview
    /\ EditorIdle
    /\ HoverIdle
    /\ GuardIdle
    /\ ScanIdle
    /\ PointerIdle

\* a loop is about to run: the while loop of splitTextNodeByDelimiter on
\* the text node of <p>t</p>, or the match loop of buildDecorations on a
\* window text
InitScan ==
    /\ mode = "scan"
    /\ \/ \E t \in Texts :
            scan = [loop |-> "split", dom |-> ParagraphTree(t), node |-> 3,
                    slices |-> <<>>, text |-> t, st |-> StartSt,
                    measure |-> Len(t), prevMeasure |-> Len(t), running |-> TRUE]
       \/ \E t \in Buffers :
            scan = [loop |-> "match", dom |-> EmptyTree, node |-> 0,
                    slices |-> <<>>, text |-> t, st |-> StartSt,
                    measure |-> 0, prevMeasure |-> 0, running |-> TRUE]
    /\ ReadingIdle
    /\ EditorIdle
    /\ HoverIdle
    /\ PluginIdle
    /\ GuardIdle
    /\ PointerIdle

\* the later version is installed and not yet enabled; the note open has
\* one spoiler; from here on the settings tab is followed, preview card
\* included, and the note is left alone
InitStyle ==
    /\ mode = "style"
    /\ dom = ParagraphTree(Delim \o <<"a">> \o Delim)
    /\ passes = 0
    /\ lastOp = "render"
    /\ prevOp = "render"
    /\ input = dom
    /\ before = dom
    /\ log = NoLog
    /\ editorPlugins = <<>>
    /\ prevPlugins = <<>>
    /\ settings = DEFAULT_SETTINGS
    /\ markers = {}
    /\ loaded = FALSE
    /\ version = "custom-style"
    /\ pluginOp = NoOp
    /\ applied = <<>>
    /\ preview = NoPreview
    /\ EditorIdle
    /\ HoverIdle
    /\ GuardIdle
    /\ ScanIdle
    /\ PointerIdle

\* the editor has drawn the decorations of k regions; the pointer rests on
\* no tagged element and its moves are followed from here on
InitPointer ==
    /\ mode = "pointer"
    /\ \E k \in 0..MaxHoverGroups :
         els = elementsOf(buildDecorations(RegionsDoc(k), PlainSyntax(5 * k),
                                           <<Window(0, 5 * k)>>).decorations)
    /\ prevEls = els
    /\ event = NoEvent
    /\ pointer = Pointer(0, 0, FALSE)
    /\ ReadingIdle
    /\ EditorIdle
    /\ PluginIdle
    /\ GuardIdle
    /\ ScanIdle

Init == InitReading \/ InitEditor \/ InitHover \/ InitRegistry \/ InitGuard \/ InitPlugin
        \/ InitScan \/ InitPointer \/ InitStyle

\* the markdown post processor (and onload) runs updateReadingMode on the view
Materialize ==
    /\ mode = "reading"
    /\ passes < MaxPasses
    /\ \E r \in {updateReadingMode(dom, Root)} :
         /\ dom' = r.dom
         /\ log' = [pairs |-> r.pairs, calls |-> r.calls]
    /\ passes' = passes + 1
    /\ lastOp' = "materialize"
    /\ prevOp' = lastOp
    /\ before' = dom
    /\ UNCHANGED <<mode, input>>
    /\ UNCHANGED <<editorVars, hoverVars>>
    /\ UNCHANGED otherVars

\* onunload runs unloadReadingMode on the workspace
Unload ==
    /\ mode = "reading"
    /\ dom' = unloadReadingMode(dom)
    /\ lastOp' = "unload"
    /\ prevOp' = lastOp
    /\ before' = dom
    /\ log' = NoLog
    /\ UNCHANGED <<mode, passes, input>>
    /\ UNCHANGED <<editorVars, hoverVars>>
    /\ UNCHANGED otherVars

\* update(update) with viewportChanged: the user scrolls
UpdateViewport ==
    /\ mode = "editor"
    /\ \E w \in Scrolled(visibleRanges, Len(doc)) :
         /\ visibleRanges' = w
         /\ \E b \in {onUpdate([decorations |-> decorations, matches |-> matches],
                                doc, syntax, w, FALSE, TRUE)} :
              /\ decorations' = b.decorations
              /\ matches' = b.matches
    /\ update' = "viewportChanged"
    /\ prevDecorations' = decorations
    /\ edit' = NoEdit
    /\ UNCHANGED <<mode, doc, syntax>>
    /\ UNCHANGED <<readingVars, hoverVars>>
    /\ UNCHANGED otherVars

\* update(update) with docChanged: the user deletes the last character; the
\* buffer is parsed again and shown as one window
UpdateDoc ==
    /\ mode = "editor"
    /\ Len(doc) > 0
    /\ LET newDoc == SubSeq(doc, 1, Len(doc) - 1)
           newTree == PlainSyntax(Len(newDoc))
           w == <<Window(0, Len(newDoc))>>
       IN /\ doc' = newDoc
          /\ syntax' = newTree
          /\ visibleRanges' = w
          /\ \E b \in {onUpdate([decorations |-> decorations, matches |-> matches],
                                 newDoc, newTree, w, TRUE, TRUE)} :
               /\ decorations' = b.decorations
               /\ matches' = b.matches
    /\ update' = "docChanged"
    /\ prevDecorations' = decorations
    /\ edit' = NoEdit
    /\ UNCHANGED mode
    /\ UNCHANGED <<readingVars, hoverVars>>
    /\ UNCHANGED otherVars

\* update(update) with neither flag (the selection moved): nothing is rebuilt
UpdateOther ==
    /\ mode = "editor"
    /\ \E b \in {onUpdate([decorations |-> decorations, matches |-> matches],
                           doc, syntax, visibleRanges, FALSE, FALSE)} :
         /\ decorations' = b.decorations
         /\ matches' = b.matches
    /\ update' = "other"
    /\ prevDecorations' = decorations
    /\ edit' = NoEdit
    /\ UNCHANGED <<mode, doc, syntax, visibleRanges>>
    /\ UNCHANGED <<readingVars, hoverVars>>
    /\ UNCHANGED otherVars

\* the create-spoiler command on a selection of the buffer; the change
\* reaches the plugin as an update with docChanged, the buffer is parsed
\* again and shown as one window
CreateSpoiler ==
    /\ mode = "editor"
    /\ Len(doc) <= MaxCommandChars
    /\ \E from \in 0..Len(doc) : \E to \in from..Len(doc) :
         \E newDoc \in {createSpoiler(doc, from, to)} :
             /\ doc' = newDoc
             /\ syntax' = PlainSyntax(Len(newDoc))
             /\ visibleRanges' = <<Window(0, Len(newDoc))>>
             /\ \E b \in {onUpdate([decorations |-> decorations, matches |-> matches],
                                    newDoc, PlainSyntax(Len(newDoc)),
                                    <<Window(0, Len(newDoc))>>, TRUE, TRUE)} :
                  /\ decorations' = b.decorations
                  /\ matches' = b.matches
             /\ edit' = [ran |-> TRUE, prev |-> doc, from |-> from, to |-> to]
    /\ update' = "docChanged"
    /\ prevDecorations' = decorations
    /\ UNCHANGED mode
    /\ UNCHANGED <<readingVars, hoverVars>>
    /\ UNCHANGED otherVars

HoverTargets == (0..(MaxHoverGroups - 1)) \cup {NoGroup}
HoverRelated == HoverTargets \cup {NoTarget}

MouseOver ==
    /\ mode = "hover"
    /\ \E target \in HoverTargets, related \in HoverRelated :
         \E h \in {handleMouseOver(els, target)} :
         /\ els' = h.elements
         /\ event' = [type |-> "mouseover", target |-> target, related |-> related,
                      threw |-> h.threw]
    /\ prevEls' = els
    /\ UNCHANGED mode
    /\ UNCHANGED <<readingVars, editorVars>>
    /\ UNCHANGED otherVars

MouseOut ==
    /\ mode = "hover"
    /\ \E target \in HoverTargets, related \in HoverRelated :
         \E h \in {handleMouseOut(els, target, related)} :
         /\ els' = h.elements
         /\ event' = [type |-> "mouseout", target |-> target, related |-> related,
                      threw |-> h.threw]
    /\ prevEls' = els
    /\ UNCHANGED mode
    /\ UNCHANGED <<readingVars, editorVars>>
    /\ UNCHANGED otherVars

\* the buffer changed and the editor drew the decorations of k regions anew
Redraw ==
    /\ mode = "hover"
    /\ \E k \in 0..MaxHoverGroups :
         els' = elementsOf(buildDecorations(RegionsDoc(k), PlainSyntax(5 * k),
                                            <<Window(0, 5 * k)>>).decorations)
    /\ prevEls' = els
    /\ event' = [type |-> "redraw", target |-> NoGroup, related |-> NoTarget,
                 threw |-> FALSE]
    /\ UNCHANGED mode
    /\ UNCHANGED <<readingVars, editorVars>>
    /\ UNCHANGED otherVars

\* loadSettings(), the registry being what it is
RegisterBySettings ==
    /\ mode = "registry"
    /\ Len(editorPlugins) < MaxRegistry
    /\ \E data \in SavedData(version) :
         \E r \in {loadSettings(editorPlugins, markers, data)} :
             /\ editorPlugins' = r.plugins
             /\ settings' = r.settings
             /\ markers' = r.markers
    /\ prevPlugins' = editorPlugins
    /\ pluginOp' = Op("loadSettings", 0)
    /\ UNCHANGED <<mode, loaded, version, applied, preview>>
    /\ UNCHANGED <<readingVars, editorVars, hoverVars, guardVars>>
    /\ UNCHANGED <<scanVars, pointerVars>>

\* loadEditorPlugin(workspace)
Register ==
    /\ mode = "registry"
    /\ \E plugins \in {loadEditorPlugin(editorPlugins)} :
         /\ editorPlugins' = plugins
         /\ applied' = updateOptions(applied, plugins)
    /\ prevPlugins' = editorPlugins
    /\ pluginOp' = Op("loadEditorPlugin", 0)
    /\ UNCHANGED <<mode, settings, markers, loaded, version, preview>>
    /\ UNCHANGED <<readingVars, editorVars, hoverVars, guardVars>>
    /\ UNCHANGED <<scanVars, pointerVars>>

\* unloadEditorPlugin(workspace)
Unregister ==
    /\ mode = "registry"
    /\ \E plugins \in {unloadEditorPlugin(editorPlugins)} :
         /\ editorPlugins' = plugins
         /\ applied' = updateOptions(applied, plugins)
    /\ prevPlugins' = editorPlugins
    /\ pluginOp' = Op("unloadEditorPlugin", 0)
    /\ UNCHANGED <<mode, settings, markers, loaded, version, preview>>
    /\ UNCHANGED <<readingVars, editorVars, hoverVars, guardVars>>
    /\ UNCHANGED <<scanVars, pointerVars>>

\* the loop body of buildDecorations on the slice as the whole of a plain
\* buffer: no range emitted so far, start = 0, end = slice.length
CheckSlice ==
    /\ mode = "guard"
    /\ ~verdict.checked
    /\ verdict' = [checked |-> TRUE,
                   ranges |-> emitMatch(<<>>, candidate, PlainSyntax(Len(candidate)),
                                        0, Len(candidate), 0)]
    /\ UNCHANGED <<mode, candidate>>
    /\ UNCHANGED <<readingVars, editorVars, hoverVars, pluginVars>>
    /\ UNCHANGED <<scanVars, pointerVars>>

\* onload: loadSettings, updateReadingMode on the reading view if there is
\* one, and applyCustomStyle in the version that has it
Onload ==
    /\ mode \in {"plugin", "style"}
    /\ ~loaded
    /\ \E data \in SavedData(version) :
         \E r \in {loadSettings(editorPlugins, markers, data)} :
             /\ editorPlugins' = r.plugins
             /\ settings' = r.settings
             /\ markers' = IF version = "main" THEN r.markers
                           ELSE applyCustomStyle(r.markers, r.settings)
             /\ applied' = registerEditorExtension(r.plugins)
    /\ \E readingView \in BOOLEAN :
         IF readingView
         THEN /\ passes < MaxPasses
              /\ dom' = updateReadingMode(dom, Root).dom
              /\ passes' = passes + 1
         ELSE UNCHANGED <<dom, passes>>
    /\ loaded' = TRUE
    /\ before' = dom
    /\ prevPlugins' = editorPlugins
    /\ pluginOp' = Op("onload", 0)
    /\ UNCHANGED <<mode, version, lastOp, prevOp, input, log, preview>>
    /\ UNCHANGED <<editorVars, hoverVars, guardVars>>
    /\ UNCHANGED <<scanVars, pointerVars>>

\* the markdown post processor: updateReadingMode(element, this)
PostProcess ==
    /\ mode = "plugin"
    /\ loaded
    /\ passes < MaxPasses
    /\ \E element \in Sections(dom) :
         /\ dom' = updateReadingMode(dom, element).dom
         /\ pluginOp' = Op("postProcess", element)
    /\ passes' = passes + 1
    /\ before' = dom
    /\ prevPlugins' = editorPlugins
    /\ UNCHANGED <<mode, editorPlugins, settings, markers, loaded, version, applied>>
    /\ UNCHANGED preview
    /\ UNCHANGED <<lastOp, prevOp, input, log>>
    /\ UNCHANGED <<editorVars, hoverVars, guardVars>>
    /\ UNCHANGED <<scanVars, pointerVars>>

\* the user clicks a wrapper
Click ==
    /\ mode = "plugin"
    /\ \E spoiler \in Spoilers(dom) :
         /\ dom' = click(dom, spoiler)
         /\ pluginOp' = Op("click", spoiler)
    /\ before' = dom
    /\ prevPlugins' = editorPlugins
    /\ UNCHANGED <<mode, editorPlugins, settings, markers, loaded, version, applied>>
    /\ UNCHANGED preview
    /\ UNCHANGED <<passes, lastOp, prevOp, input, log>>
    /\ UNCHANGED <<editorVars, hoverVars, guardVars>>
    /\ UNCHANGED <<scanVars, pointerVars>>

\* settings tab, "Reveal all spoilers": onChange(value)
ToggleShowAll ==
    /\ mode \in {"plugin", "style"}
    /\ loaded
    /\ \E value \in {~settings.showAllSpoilers} :
         \E st \in {[settings EXCEPT !.showAllSpoilers = value]} :
             /\ settings' = st
             /\ markers' = IF version = "main"
                           THEN toggleClass(markers, RevealedClass, value)
                           ELSE applyCustomStyle(
                                    toggleClass(markers, RevealedClass, value), st)
             /\ preview' = IF version = "main" THEN preview
                           ELSE refreshPreview(preview, st)
    /\ before' = dom
    /\ prevPlugins' = editorPlugins
    /\ pluginOp' = Op("toggleShowAll", 0)
    /\ UNCHANGED <<mode, editorPlugins, loaded, version, applied>>
    /\ UNCHANGED <<dom, passes, lastOp, prevOp, input, log>>
    /\ UNCHANGED <<editorVars, hoverVars, guardVars>>
    /\ UNCHANGED <<scanVars, pointerVars>>

\* settings tab, "Hide spoilers in editor view": onChange(value)
ToggleEditorMode ==
    /\ mode \in {"plugin", "style"}
    /\ loaded
    /\ \E value \in {~settings.enableEditorMode} :
         /\ settings' = [settings EXCEPT !.enableEditorMode = value]
         /\ \E plugins \in {IF value THEN loadEditorPlugin(editorPlugins)
                                     ELSE unloadEditorPlugin(editorPlugins)} :
              /\ editorPlugins' = plugins
              /\ applied' = updateOptions(applied, plugins)
    /\ before' = dom
    /\ prevPlugins' = editorPlugins
    /\ pluginOp' = Op("toggleEditorMode", 0)
    /\ UNCHANGED <<mode, markers, loaded, version, preview>>
    /\ UNCHANGED <<dom, passes, lastOp, prevOp, input, log>>
    /\ UNCHANGED <<editorVars, hoverVars, guardVars>>
    /\ UNCHANGED <<scanVars, pointerVars>>

\* settings tab of the later version, custom style toggle: onChange(value)
ToggleCustomStyle ==
    /\ mode \in {"plugin", "style"}
    /\ loaded
    /\ version = "custom-style"
    /\ \E st \in {[settings EXCEPT !.enableCustomStyle = ~@]} :
         /\ settings' = st
         /\ markers' = applyCustomStyle(markers, st)
         /\ preview' = refreshPreview(preview, st)
    /\ before' = dom
    /\ prevPlugins' = editorPlugins
    /\ pluginOp' = Op("toggleCustomStyle", 0)
    /\ UNCHANGED <<mode, editorPlugins, loaded, version, applied>>
    /\ UNCHANGED <<dom, passes, lastOp, prevOp, input, log>>
    /\ UNCHANGED <<editorVars, hoverVars, guardVars>>
    /\ UNCHANGED <<scanVars, pointerVars>>

\* settings tab of the later version, colour input: onChange(value), with
\* settings.customColor = value || "#a78bfa"
ChangeColor ==
    /\ mode = "style"
    /\ loaded
    /\ version = "custom-style"
    /\ \E value \in ColorInputs :
         \E st \in {[settings EXCEPT !.customColor = IF value = "" THEN DefaultColor
                                                          ELSE value]} :
             /\ settings' = st
             /\ markers' = applyCustomStyle(markers, st)
             /\ preview' = refreshPreview(preview, st)
    /\ before' = dom
    /\ prevPlugins' = editorPlugins
    /\ pluginOp' = Op("changeColor", 0)
    /\ UNCHANGED <<mode, editorPlugins, loaded, version, applied>>
    /\ UNCHANGED <<dom, passes, lastOp, prevOp, input, log>>
    /\ UNCHANGED <<editorVars, hoverVars, guardVars>>
    /\ UNCHANGED <<scanVars, pointerVars>>

\* settings tab of the later version, the button beside the colour: onClick
ResetColor ==
    /\ mode = "style"
    /\ loaded
    /\ version = "custom-style"
    /\ \E st \in {[settings EXCEPT !.customColor = DEFAULT_SETTINGS.customColor]} :
         /\ settings' = st
         /\ markers' = applyCustomStyle(markers, st)
         /\ preview' = refreshPreview(preview, st)
    /\ before' = dom
    /\ prevPlugins' = editorPlugins
    /\ pluginOp' = Op("resetColor", 0)
    /\ UNCHANGED <<mode, editorPlugins, loaded, version, applied>>
    /\ UNCHANGED <<dom, passes, lastOp, prevOp, input, log>>
    /\ UNCHANGED <<editorVars, hoverVars, guardVars>>
    /\ UNCHANGED <<scanVars, pointerVars>>

\* settings tab of the later version, blur input: onChange(value)
ChangeBlur ==
    /\ mode = "style"
    /\ loaded
    /\ version = "custom-style"
    /\ \E num \in BlurInputs :
         \E st \in {[settings EXCEPT !.blurAmount = clampBlur(num)]} :
             /\ settings' = st
             /\ markers' = applyCustomStyle(markers, st)
             /\ preview' = refreshPreview(preview, st)
    /\ before' = dom
    /\ prevPlugins' = editorPlugins
    /\ pluginOp' = Op("changeBlur", 0)
    /\ UNCHANGED <<mode, editorPlugins, loaded, version, applied>>
    /\ UNCHANGED <<dom, passes, lastOp, prevOp, input, log>>
    /\ UNCHANGED <<editorVars, hoverVars, guardVars>>
    /\ UNCHANGED <<scanVars, pointerVars>>

\* the settings tab of the later version is opened: display() builds a new
\* preview card and attaches it
Display ==
    /\ mode = "style"
    /\ loaded
    /\ version = "custom-style"
    /\ preview' = attachPreview({}, settings)
    /\ before' = dom
    /\ prevPlugins' = editorPlugins
    /\ pluginOp' = Op("display", 0)
    /\ UNCHANGED <<mode, editorPlugins, settings, markers, loaded, version, applied>>
    /\ UNCHANGED <<dom, passes, lastOp, prevOp, input, log>>
    /\ UNCHANGED <<editorVars, hoverVars, guardVars>>
    /\ UNCHANGED <<scanVars, pointerVars>>

\* onunload: the reveal-all class is removed, the wrappers are unwrapped,
\* the extension is unregistered and, in the later version, the custom
\* style is cleared
Onunload ==
    /\ mode \in {"plugin", "style"}
    /\ loaded
    /\ markers' = IF version = "main" THEN removeClass(markers, RevealedClass)
                  ELSE clearCustomStyle(removeClass(markers, RevealedClass))
    /\ dom' = unloadReadingMode(dom)
    /\ \E plugins \in {unloadEditorPlugin(editorPlugins)} :
         /\ editorPlugins' = plugins
         /\ applied' = updateOptions(applied, plugins)
    /\ loaded' = FALSE
    /\ before' = dom
    /\ prevPlugins' = editorPlugins
    /\ pluginOp' = Op("onunload", 0)
    /\ UNCHANGED <<mode, settings, version, preview>>
    /\ UNCHANGED <<passes, lastOp, prevOp, input, log>>
    /\ UNCHANGED <<editorVars, hoverVars, guardVars>>
    /\ UNCHANGED <<scanVars, pointerVars>>

\* one iteration of while (node) { ... } in splitTextNodeByDelimiter; the
\* measure is the length of the text of the node the loop goes on with
SplitStep ==
    /\ mode = "scan"
    /\ scan.loop = "split"
    /\ scan.running
    /\ \E r \in {splitStep(scan.dom, scan.node, scan.slices)} :
         scan' = [scan EXCEPT !.dom = r.dom, !.node = r.node, !.slices = r.slices,
                              !.prevMeasure = scan.measure,
                              !.measure = IF r.node = 0 THEN 0
                                          ELSE Len(r.dom.data[r.node]),
                              !.running = r.node # 0]
    /\ UNCHANGED <<mode, readingVars, editorVars, hoverVars, pluginVars, guardVars>>
    /\ UNCHANGED pointerVars

\* one test of while ((match = SPOILER_REGEX.exec(text)) !== null) and, when
\* it holds, the body; the measure is SPOILER_REGEX.lastIndex
MatchStep ==
    /\ mode = "scan"
    /\ scan.loop = "match"
    /\ scan.running
    /\ \E match \in {exec(scan.text, scan.st.lastIndex)} :
         IF match.found
         THEN \E st \in {matchBody(scan.text, PlainSyntax(Len(scan.text)), scan.text,
                                   0, scan.st, match)} :
                  scan' = [scan EXCEPT !.st = st, !.prevMeasure = scan.measure,
                                       !.measure = st.lastIndex]
         ELSE scan' = [scan EXCEPT !.st.lastIndex = match.lastIndex,
                                   !.prevMeasure = scan.measure,
                                   !.running = FALSE]
    /\ UNCHANGED <<mode, readingVars, editorVars, hoverVars, pluginVars, guardVars>>
    /\ UNCHANGED pointerVars

\* the group of the tagged element the pointer is on (position 0: the
\* pointer is on no tagged element)
GroupAt(elements, position) ==
    IF position = 0 THEN NoGroup ELSE elements[position].group

\* relatedTarget?.closest(...) of the other end of a pointer move
RelatedAt(elements, position) ==
    IF position = 0 THEN NoTarget ELSE elements[position].group

\* the pointer leaves the element it is on for another element, or for a
\* place without a tagged element: the browser sends mouseout with the
\* element left as target and the element entered as relatedTarget
PointerLeaves ==
    /\ mode = "pointer"
    /\ ~pointer.moving
    /\ \E next \in 0..Len(els) :
         /\ next # pointer.on
         /\ \E h \in {handleMouseOut(els, GroupAt(els, pointer.on),
                                      RelatedAt(els, next))} :
              /\ els' = h.elements
              /\ event' = [type |-> "mouseout", target |-> GroupAt(els, pointer.on),
                           related |-> RelatedAt(els, next), threw |-> h.threw]
         /\ pointer' = Pointer(pointer.on, next, TRUE)
    /\ prevEls' = els
    /\ UNCHANGED mode
    /\ UNCHANGED <<readingVars, editorVars, pluginVars, guardVars, scanVars>>

\* the pointer arrives: the browser sends mouseover with the element
\* entered as target and the element left as relatedTarget
PointerEnters ==
    /\ mode = "pointer"
    /\ pointer.moving
    /\ \E h \in {handleMouseOver(els, GroupAt(els, pointer.to))} :
         /\ els' = h.elements
         /\ event' = [type |-> "mouseover", target |-> GroupAt(els, pointer.to),
                      related |-> RelatedAt(els, pointer.on), threw |-> h.threw]
    /\ pointer' = Pointer(pointer.to, 0, FALSE)
    /\ prevEls' = els
    /\ UNCHANGED mode
    /\ UNCHANGED <<readingVars, editorVars, pluginVars, guardVars, scanVars>>

\* the buffer changed under the resting pointer and the editor drew the
\* decorations of k regions anew; no pointer event is sent, and the pointer
\* is on whatever is now drawn at its place
PointerRedraw ==
    /\ mode = "pointer"
    /\ ~pointer.moving
    /\ \E k \in 0..MaxHoverGroups :
         /\ els' = elementsOf(buildDecorations(RegionsDoc(k), PlainSyntax(5 * k),
                                               <<Window(0, 5 * k)>>).decorations)
         /\ \E position \in 0..(3 * k) : pointer' = Pointer(position, 0, FALSE)
    /\ prevEls' = els
    /\ event' = [type |-> "redraw", target |-> NoGroup, related |-> NoTarget,
                 threw |-> FALSE]
    /\ UNCHANGED mode
    /\ UNCHANGED <<readingVars, editorVars, pluginVars, guardVars, scanVars>>

Next ==
    \/ Materialize
    \/ Unload
    \/ UpdateViewport
    \/ UpdateDoc
    \/ UpdateOther
    \/ CreateSpoiler
    \/ MouseOver
    \/ MouseOut
    \/ Redraw
    \/ RegisterBySettings
    \/ Register
    \/ Unregister
    \/ CheckSlice
    \/ Onload
    \/ PostProcess
    \/ Click
    \/ ToggleShowAll
    \/ ToggleEditorMode
    \/ ToggleCustomStyle
    \/ Onunload
    \/ ChangeColor
    \/ ResetColor
    \/ ChangeBlur
    \/ Display
    \/ SplitStep
    \/ MatchStep
    \/ PointerLeaves
    \/ PointerEnters
    \/ PointerRedraw

Spec == Init /\ [][Next]_vars

SpecReading == InitReading /\ [][Materialize \/ Unload]_vars

SpecEditor ==
    InitEditor /\ [][UpdateViewport \/ UpdateDoc \/ UpdateOther \/ CreateSpoiler]_vars

SpecHover == InitHover /\ [][MouseOver \/ MouseOut \/ Redraw]_vars

SpecPlugin ==
    InitPlugin /\ [][Onload \/ PostProcess \/ Click \/ ToggleShowAll \/ ToggleEditorMode
                      \/ ToggleCustomStyle \/ Onunload]_vars

SpecStyle ==
    InitStyle /\ [][Onload \/ Display \/ ToggleShowAll \/ ToggleEditorMode
                     \/ ToggleCustomStyle \/ ChangeColor \/ ResetColor \/ ChangeBlur
                     \/ Onunload]_vars

SpecPointer == InitPointer /\ [][PointerLeaves \/ PointerEnters \/ PointerRedraw]_vars

SpecScan == InitScan /\ [][SplitStep \/ MatchStep]_vars

\* a loop that has started runs on: JavaScript runs the loop to its end
\* before anything else gets the thread
FairScan == SpecScan /\ WF_vars(SplitStep) /\ WF_vars(MatchStep)

SpecGuard == InitGuard /\ [][CheckSlice]_vars

SpecRegistry == InitRegistry /\ [][RegisterBySettings \/ Register \/ Unregister]_vars

(***************************************************************************)
(* What the properties are stated with: the delimiter scanner of the       *)
(* design, written on its own.                                             *)
(***************************************************************************)
\* the occurrences of "||" in s from the 1-based index i on, taken left to
\* right without overlap
RECURSIVE TokensFrom(_, _)
TokensFrom(s, i) ==
    IF i + 1 > Len(s) THEN <<>>
    ELSE IF IsDelimAt(s, i) THEN <<i>> \o TokensFrom(s, i + 2)
    ELSE TokensFrom(s, i + 1)

ExcludedTags == SpoilerSelector \cup CodeSelector \cup MathSelector

\* a text node below an element of an excluded kind
ExcludedText(d, t) ==
    \E a \in Nodes(d) : a # t /\ IsInclusiveAncestor(d, a, t) /\ d.tag[a] \in ExcludedTags

RECURSIVE TokensOfNodes(_, _)
TokensOfNodes(d, list) ==
    IF list = <<>> THEN <<>>
    ELSE LET t == Head(list)
             ps == TokensFrom(d.data[t], 1)
         IN [i \in 1..Len(ps) |-> [node |-> t, pos |-> ps[i],
                                   excluded |-> ExcludedText(d, t)]]
            \o TokensOfNodes(d, Tail(list))

\* every delimiter token under element, in document order
AllTokens(d, element) == TokensOfNodes(d, findAll(d, element, {TextTag}))

\* the delimiter tokens under element that are in no excluded context
OpenTokens(d, element) == SelectSeq(AllTokens(d, element), LAMBDA k : ~k.excluded)

NextSibling(d, n) ==
    LET sibs == d.kids[d.parent[n]]
        i == IndexIn(sibs, n)
    IN IF i < Len(sibs) THEN sibs[i + 1] ELSE 0

\* token b follows token a with nothing between them
AdjacentTokens(d, a, b) ==
    \/ a.node = b.node /\ b.pos = a.pos + 2
    \/ /\ a.node # b.node
       /\ a.pos + 1 = Len(d.data[a.node])
       /\ b.pos = 1
       /\ NextSibling(d, a.node) = b.node

\* of the pairs (1,2), (3,4), ... of toks, those with something between
NonEmptyPairs(d, toks) ==
    {k \in 1..(Len(toks) \div 2) : ~AdjacentTokens(d, toks[2 * k - 1], toks[2 * k])}

NumSpoilers(d) == Len(findAll(d, Root, SpoilerSelector))

Created(call) == NumSpoilers(call.after) - NumSpoilers(call.before)

Calls == {log.calls[i] : i \in 1..Len(log.calls)}
Pairs == {log.pairs[i] : i \in 1..Len(log.pairs)}

\* the pairs (2k-1, 2k) of toks of which neither token is excluded
AcceptedPairs(toks) ==
    {k \in 1..(Len(toks) \div 2) : ~toks[2 * k - 1].excluded /\ ~toks[2 * k].excluded}

\* the text nodes of d that lie below an element of an excluded kind
ExcludedTexts(d) == {t \in Nodes(d) : d.tag[t] = TextTag /\ ExcludedText(d, t)}

Min(S) == CHOOSE x \in S : \A y \in S : x <= y

\* the pairs of the live pattern in text from the 1-based index i on: an
\* opening "||" and, as its closing token, the first "||" that starts at
\* least one character after the opening token ends; the scan goes on behind
\* the closing token
RECURSIVE LivePairsFrom(_, _)
LivePairsFrom(text, i) ==
    LET closers(p) == {q \in (p + 3)..Len(text) : IsDelimAt(text, q)}
        openers == {p \in i..Len(text) : IsDelimAt(text, p) /\ closers(p) # {}}
    IN IF openers = {} THEN <<>>
       ELSE LET p == Min(openers)
                q == Min(closers(p))
            IN <<[open |-> p, close |-> q]>> \o LivePairsFrom(text, q + 2)

\* the same pairs of the window w of the buffer, as buffer offsets
LivePairs(buffer, w) ==
    LET text == SubSeq(buffer, w.from + 1, w.to)
        ps == LivePairsFrom(text, 1)
    IN [k \in 1..Len(ps) |-> [start |-> w.from + ps[k].open - 1,
                              end |-> w.from + ps[k].close + 1]]

\* the pairs (1,2), (3,4), ... of the tokens of the window w, as buffer offsets
ScannerPairs(buffer, w) ==
    LET toks == TokensFrom(SubSeq(buffer, w.from + 1, w.to), 1) IN
    [k \in 1..(Len(toks) \div 2) |-> [start |-> w.from + toks[2 * k - 1] - 1,
                                      end |-> w.from + toks[2 * k] + 1]]

\* the token at the buffer offsets p, p + 1 is in an excluded context: a
\* syntax node of an ignored kind reaches over the start of the token or over
\* the start of its last character
SyntaxExcluded(tree, p) ==
    \E n \in 1..Len(tree) :
        /\ tree[n].name \in IgnoredNames
        /\ \E q \in {p, p + 1} : tree[n].from < q /\ q < tree[n].to

PairExcluded(tree, pair) ==
    SyntaxExcluded(tree, pair.start) \/ SyntaxExcluded(tree, pair.end - 2)

\* the pairs of a window that have no excluded endpoint, counted
AcceptedIn(pairs) ==
    Cardinality({k \in 1..Len(pairs) : ~PairExcluded(syntax, pairs[k])})

\* window by window, the pairs of the live pattern without an excluded endpoint
RECURSIVE LiveAccepted(_)
LiveAccepted(windows) ==
    IF windows = <<>> THEN 0
    ELSE AcceptedIn(LivePairs(doc, Head(windows))) + LiveAccepted(Tail(windows))

\* window by window, the scanner's pairs without an excluded endpoint
RECURSIVE ScannerAccepted(_)
ScannerAccepted(windows) ==
    IF windows = <<>> THEN 0
    ELSE AcceptedIn(ScannerPairs(doc, Head(windows))) + ScannerAccepted(Tail(windows))

Groups == {decorations[i].group : i \in 1..Len(decorations)}
Matches == {matches[i] : i \in 1..Len(matches)}
Windows == {visibleRanges[i] : i \in 1..Len(visibleRanges)}

\* the accepted regions of the buffer: window by window, the pairs of the
\* live pattern that have no excluded endpoint
AcceptedRegions ==
    UNION {{LivePairs(doc, w)[k] : k \in 1..Len(LivePairs(doc, w))} : w \in Windows}
        \ {r \in [start : 0..Len(doc), end : 0..Len(doc)] : PairExcluded(syntax, r)}

DecorationSet == {decorations[i] : i \in 1..Len(decorations)}

\* the place in visibleRanges of the window that holds the offset
WindowIndex(pos) ==
    CHOOSE k \in 1..Len(visibleRanges) :
        visibleRanges[k].from <= pos /\ pos < visibleRanges[k].to

\* the region of the range a is discovered before the region of the range b
DiscoveredBefore(a, b) ==
    \/ WindowIndex(a.from) < WindowIndex(b.from)
    \/ WindowIndex(a.from) = WindowIndex(b.from) /\ a.from < b.from

\* no two delimiter tokens of the text are adjacent: no four "|" in a row
NoAdjacentTokens(text) ==
    \A i \in 1..Len(text) : ~(IsDelimAt(text, i) /\ IsDelimAt(text, i + 2))

\* the start and end offsets of a sequence of matches or pairs
Positions(ms) == [k \in 1..Len(ms) |-> [start |-> ms[k].start, end |-> ms[k].end]]

\* the matches the last buildDecorations found in the window w
FoundIn(w) == Positions(SelectSeq(matches, LAMBDA m : m.window = w))

\* a rendered tree <div><p>t</p></div>
IsParagraph(d) == d.tag = <<"div", "p", TextTag>>

\* the regions of the wrappers among the children kids, as offsets of the
\* literal text: a text node takes its length, a wrapper its content and the
\* two tokens it stands for
RECURSIVE RenderedRegions(_, _, _)
RenderedRegions(d, kids, off) ==
    IF kids = <<>> THEN <<>>
    ELSE IF d.tag[Head(kids)] = SpoilerTag
    THEN <<[start |-> off, end |-> off + Len(TextOf(d, Head(kids))) + 4]>>
         \o RenderedRegions(d, Tail(kids), off + Len(TextOf(d, Head(kids))) + 4)
    ELSE IF d.tag[Head(kids)] = TextTag
    THEN RenderedRegions(d, Tail(kids), off + Len(d.data[Head(kids)]))
    ELSE RenderedRegions(d, Tail(kids), off + Len(TextOf(d, Head(kids))))

\* the regions of the live builder for the text t as one window of a plain
\* buffer
LiveRegions(t) ==
    Positions(buildDecorations(t, PlainSyntax(Len(t)), <<Window(0, Len(t))>>).matches)

\* the nodes of a list of slices
SliceNodes(slices) == [k \in 1..Len(slices) |-> slices[k].node]

\* r is what splitTextNodeByDelimiter gives for the text node n of the tree
\* d: the slices, concatenated, are the text of n; a delimiter slice is
\* "||", any other slice holds no "||"; the slice nodes stand where n stood
\* among its siblings, in the order of the list
IsPartition(d, n, r) ==
    /\ Len(r.slices) >= 1
    /\ TextOfList(r.dom, SliceNodes(r.slices)) = d.data[n]
    /\ \A k \in 1..Len(r.slices) :
           IF r.slices[k].isDelimiter
           THEN r.dom.data[r.slices[k].node] = Delim
           ELSE \A j \in 1..Len(r.dom.data[r.slices[k].node]) :
                    ~IsDelimAt(r.dom.data[r.slices[k].node], j)
    /\ \A p \in {d.parent[n]} : \A i \in {IndexIn(d.kids[p], n)} :
           r.dom.kids[p] = SubSeq(d.kids[p], 1, i - 1) \o SliceNodes(r.slices)
                               \o SubSeq(d.kids[p], i + 1, Len(d.kids[p]))

\* the text nodes a wrapSpoilers call collected
Collected(c) ==
    {collectTextNodes(c.before, c.element)[k] :
        k \in 1..Len(collectTextNodes(c.before, c.element))}

\* the tokens a wrapSpoilers call on element pairs: of the tokens in no
\* excluded context, in document order, the first with the second, the third
\* with the fourth; an odd last token is left over
PairedTokens(d, element) ==
    {[node |-> OpenTokens(d, element)[k].node, pos |-> OpenTokens(d, element)[k].pos] :
        k \in 1..(2 * (Len(OpenTokens(d, element)) \div 2))}

\* the text s from the index i on, without the two characters of every token
\* of the node t that is in paired
RECURSIVE StripFrom(_, _, _, _)
StripFrom(s, i, t, paired) ==
    IF i > Len(s) THEN <<>>
    ELSE IF [node |-> t, pos |-> i] \in paired THEN StripFrom(s, i + 2, t, paired)
    ELSE <<s[i]>> \o StripFrom(s, i + 1, t, paired)

RECURSIVE StrippedText(_, _, _)
StrippedText(d, list, paired) ==
    IF list = <<>> THEN <<>>
    ELSE StripFrom(d.data[Head(list)], 1, Head(list), paired)
         \o StrippedText(d, Tail(list), paired)

\* the text under element, in document order, without the paired tokens
TextWithoutPairs(d, element) ==
    StrippedText(d, treeWalkerText(d, element), PairedTokens(d, element))

\* the text nodes of d that do not lie under element
TextsOutside(d, element) ==
    {t \in Nodes(d) : d.tag[t] = TextTag /\ ~IsInclusiveAncestor(d, element, t)}

\* x, "||||", y
Quad(x, y) == x \o Delim \o Delim \o y
Around == {<<>>, <<"a">>}

(***************************************************************************)
(* C1.  Round trip: after unloadReadingMode the literal text under the     *)
(* container is the text of the tree as it was rendered.                   *)
(***************************************************************************)
C1_RoundTrip ==
    (mode = "reading" /\ lastOp = "unload") => TextOf(dom, Root) = TextOf(input, Root)

(***************************************************************************)
(* C2.  Idempotence: an updateReadingMode that follows an updateReadingMode*)
(* leaves the tree as it is, closes no pair, and collects no text node     *)
(* that lies under a spoiler wrapper.                                      *)
(***************************************************************************)
C2_Idempotent ==
    (mode = "reading" /\ lastOp = "materialize" /\ prevOp = "materialize") =>
        /\ TreeOf(dom) = TreeOf(before)
        /\ log.pairs = <<>>
        /\ \A c \in Calls :
             LET collected == collectTextNodes(c.before, c.element) IN
             \A i \in 1..Len(collected) :
                 closest(c.before, c.before.parent[collected[i]], SpoilerSelector) = 0

C2_Witness ==
    /\ mode = "reading" /\ lastOp = "materialize" /\ prevOp = "materialize"
    /\ NumSpoilers(before) >= 1
    /\ \E c \in Calls : Len(OpenTokens(c.before, c.element)) = 1

C4_ExcludedPairDiscarded ==
    /\ mode = "reading" =>
         \A c \in Calls :
             LET toks == AllTokens(c.before, c.element) IN
             AcceptedPairs(toks) = {} =>
                 /\ Created(c) = 0
                 /\ TextOf(c.after, Root) = TextOf(c.before, Root)
    /\ mode = "editor" =>
         \A m \in Matches :
             /\ m.skipped = PairExcluded(syntax, m)
             /\ m.skipped =>
                  \A i \in 1..Len(decorations) :
                      decorations[i].to <= m.start \/ m.end <= decorations[i].from
             /\ \A n \in Matches : n = m \/ n.end <= m.start \/ m.end <= n.start

(***************************************************************************)
(* C4.  A token in an excluded context is never an endpoint of a region    *)
(* and stays as it is.  In the editor a match with an excluded endpoint is *)
(* skipped, no range lies in it, and no two matches share a token.  In the *)
(* reading view the excluded text nodes are left out before the pairing:   *)
(* the delimiters of a closed pair are not excluded, every excluded text   *)
(* node keeps its text and stays excluded, and a pass leaves at most one   *)
(* non-excluded token unpaired, whatever excluded tokens lie between.      *)
(***************************************************************************)
C4_ExcludedTokenLiteral ==
    /\ mode = "reading" =>
         /\ \A p \in Pairs : ~p.openIgnored /\ ~p.closeIgnored
         /\ \A c \in Calls :
              /\ \A t \in ExcludedTexts(c.before) :
                     /\ c.after.data[t] = c.before.data[t]
                     /\ ExcludedText(c.after, t)
              /\ Len(OpenTokens(c.after, c.element)) <= 1
    /\ mode = "editor" =>
         \A m \in Matches :
             /\ m.skipped = PairExcluded(syntax, m)
             /\ m.skipped =>
                  \A i \in 1..Len(decorations) :
                      decorations[i].to <= m.start \/ m.end <= decorations[i].from
             /\ \A n \in Matches : n = m \/ n.end <= m.start \/ m.end <= n.start

\* "||", an excluded "||", "||": the outer two are paired around the excluded one
C4_Witness ==
    /\ mode = "reading" /\ lastOp = "materialize"
    /\ \E c \in Calls :
         LET toks == AllTokens(c.before, c.element) IN
         /\ Len(toks) = 3
         /\ ~toks[1].excluded /\ toks[2].excluded /\ ~toks[3].excluded
         /\ Created(c) = 1

C7_SortedDisjoint ==
    mode = "editor" =>
        /\ \A i \in 1..(Len(decorations) - 1) :
               decorations[i].from <= decorations[i + 1].from
        /\ \A i \in 1..Len(decorations), j \in 1..Len(decorations) :
               i < j => decorations[i].to <= decorations[j].from
        /\ Len(decorations) % 3 = 0
        /\ \A k \in 0..((Len(decorations) \div 3) - 1) :
               LET a == decorations[3 * k + 1]
                   b == decorations[3 * k + 2]
                   c == decorations[3 * k + 3]
               IN /\ a.group = b.group /\ b.group = c.group
                  /\ a.isDelimiter /\ ~b.isDelimiter /\ c.isDelimiter
                  /\ a.to = b.from /\ b.to = c.from

\* two windows, the later part of the buffer first, a region in each
C7_Witness ==
    /\ mode = "editor"
    /\ Len(visibleRanges) = 2
    /\ visibleRanges[1].from > visibleRanges[2].from
    /\ update = "viewportChanged"
    /\ Len(decorations) = 6
    /\ decorations[1].group > decorations[4].group

(***************************************************************************)
(* C8.  Every visible window is scanned on its own: every match lies in    *)
(* the window it was found in, the matches of a window are the pairs of    *)
(* the live pattern in the text of that window alone, and every range lies *)
(* in one window, so a pair whose tokens lie in two windows gives nothing. *)
(***************************************************************************)
C8_FreshWindow ==
    mode = "editor" =>
        /\ \A m \in Matches :
               /\ m.window \in Windows
               /\ m.window.from <= m.start /\ m.end <= m.window.to
        /\ \A w \in Windows :
               LET found == SelectSeq(matches, LAMBDA m : m.window = w)
                   pairs == LivePairs(doc, w)
               IN /\ Len(found) = Len(pairs)
                  /\ \A k \in 1..Len(pairs) :
                         found[k].start = pairs[k].start /\ found[k].end = pairs[k].end
        /\ \A i \in 1..Len(decorations) :
               \E w \in Windows :
                   w.from <= decorations[i].from /\ decorations[i].to <= w.to

\* "||a||" shown as two windows: the tokens lie in different windows
C8_Witness ==
    /\ mode = "editor"
    /\ doc = RegionsDoc(1)
    /\ syntax = PlainSyntax(Len(doc))
    /\ Len(visibleRanges) = 2
    /\ Cut(visibleRanges) = 2
    /\ update = "viewportChanged"
    /\ decorations = <<>>

(***************************************************************************)
(* C9.  Hover: after a mouseover on an element of group g every element of *)
(* group g has the hover class; a mouseout towards an element of the same  *)
(* group changes nothing; a mouseout towards anything else, or nothing,    *)
(* leaves no element of group g with the hover class.  The elements of     *)
(* other groups keep their state.                                          *)
(***************************************************************************)
C9_HoverGroup ==
    (mode = "hover" /\ event.target # NoGroup) =>
        LET g == event.target
            ofGroup == {i \in 1..Len(els) : els[i].group = g}
        IN /\ Len(els) = Len(prevEls)
           /\ event.type = "mouseover" => \A i \in ofGroup : els[i].hover
           /\ (event.type = "mouseout" /\ event.related = g) => els = prevEls
           /\ (event.type = "mouseout" /\ event.related # g) =>
                  \A i \in ofGroup : ~els[i].hover
           /\ event.type \in {"mouseover", "mouseout"} =>
                  \A i \in (1..Len(els)) \ ofGroup : els[i] = prevEls[i]

\* the pointer leaves a highlighted group of three elements for another group
C9_Witness ==
    /\ mode = "hover"
    /\ event.type = "mouseout"
    /\ event.target = 0 /\ event.related = 1
    /\ Cardinality({i \in 1..Len(prevEls) : prevEls[i].group = 0 /\ prevEls[i].hover}) = 3
    /\ \E i \in 1..Len(els) : els[i].group = 1 /\ els[i].hover

(***************************************************************************)
(* C10.  A pointer event whose target carries a group that no element of   *)
(* the view has any more, or carries no group, is handled without an       *)
(* error and changes no element.                                           *)
(***************************************************************************)
C10_StaleGroupNoOp ==
    (/\ mode = "hover"
     /\ event.type \in {"mouseover", "mouseout"}
     /\ \/ event.target = NoGroup
        \/ \A i \in 1..Len(prevEls) : prevEls[i].group # event.target) =>
        els = prevEls /\ ~event.threw

\* the pointer leaves group 1 after a redraw left only group 0, highlighted
C10_Witness ==
    /\ mode = "hover"
    /\ event.type = "mouseout"
    /\ event.target = 1
    /\ Len(prevEls) = 3
    /\ \A i \in 1..Len(prevEls) : prevEls[i].group = 0
    /\ els = prevEls

(***************************************************************************)
(* C11.  The registry behaves as a set under loadSettings,                 *)
(* loadEditorPlugin and unloadEditorPlugin in any order: a registration    *)
(* with the extension present changes nothing, an unregistration with the  *)
(* extension absent changes nothing, the extension is never there twice,   *)
(* and after an unregistration it is absent.                               *)
(***************************************************************************)
C11_RegistryIsSet ==
    mode = "registry" =>
        LET count(list) == Cardinality({i \in 1..Len(list) : list[i] = spoilerEditorPlugin})
            registers == pluginOp.name = "loadEditorPlugin"
                         \/ (pluginOp.name = "loadSettings" /\ settings.enableEditorMode)
        IN /\ (registers /\ count(prevPlugins) > 0) => editorPlugins = prevPlugins
           /\ (pluginOp.name = "unloadEditorPlugin" /\ count(prevPlugins) = 0) =>
                  editorPlugins = prevPlugins
           /\ count(editorPlugins) <= 1
           /\ pluginOp.name = "unloadEditorPlugin" => count(editorPlugins) = 0

C13_ClickFlipsOnce ==
    (mode = "plugin" /\ pluginOp.name = "click") =>
        /\ dom.revealed[pluginOp.target] = ~before.revealed[pluginOp.target]
        /\ \A n \in Spoilers(dom) \ {pluginOp.target} :
               dom.revealed[n] = before.revealed[n]

(***************************************************************************)
(* C14.  Teardown leaves no residue: after onunload no wrapper remains     *)
(* under the workspace container, the registry does not hold the editor    *)
(* extension, and the container carries neither the reveal-all class nor   *)
(* the custom-style class or properties.                                   *)
(***************************************************************************)
C14_NoResidue ==
    (mode = "plugin" /\ pluginOp.name = "onunload") =>
        /\ Spoilers(dom) = {}
        /\ findAll(dom, Root, SpoilerSelector) = <<>>
        /\ ~includes(editorPlugins, spoilerEditorPlugin)
        /\ markers \cap ({RevealedClass, CustomClass} \cup StyleProps) = {}

C14_Witness ==
    /\ mode = "plugin"
    /\ pluginOp.name = "onunload"
    /\ Cardinality(Spoilers(before)) = 2
    /\ \E n \in Spoilers(before) : before.revealed[n]
    /\ includes(prevPlugins, spoilerEditorPlugin)
    /\ settings.showAllSpoilers
    /\ settings.enableCustomStyle

(***************************************************************************)
(* C15.  For every accepted region [s, e) buildDecorations emits exactly   *)
(* three sub-ranges: [s, s+2) as delimiter, [s+2, e-2) as content and      *)
(* [e-2, e) as delimiter, the three with one groupId.  They cover [s, e)   *)
(* without gap or overlap, and no sub-range lies outside the accepted      *)
(* regions.                                                                *)
(***************************************************************************)
C15_ThreeSubRanges ==
    mode = "editor" =>
        /\ \A r \in AcceptedRegions :
               \E g \in Groups :
                   {d \in DecorationSet : r.start <= d.from /\ d.to <= r.end}
                       = {Range(r.start, r.start + 2, TRUE, g),
                          Range(r.start + 2, r.end - 2, FALSE, g),
                          Range(r.end - 2, r.end, TRUE, g)}
        /\ Len(decorations) = 3 * Cardinality(AcceptedRegions)
        /\ \A d \in DecorationSet :
               \E r \in AcceptedRegions : r.start <= d.from /\ d.to <= r.end

\* two matches, one of them with an endpoint in inline code: three ranges
C15_Witness ==
    /\ mode = "editor"
    /\ update = "viewportChanged"
    /\ Len(matches) = 2
    /\ \E m \in Matches : m.skipped
    /\ Cardinality(AcceptedRegions) = 1
    /\ Len(decorations) = 3

(***************************************************************************)
(* C16.  Within one invocation of buildDecorations, over all windows, two  *)
(* different accepted regions never have the same groupId, and the         *)
(* groupIds increase strictly in the order the regions are discovered:     *)
(* window by window, from left to right in a window.                       *)
(***************************************************************************)
C16_GroupIdsIncrease ==
    mode = "editor" =>
        /\ \A a \in DecorationSet, b \in DecorationSet :
               (~a.isDelimiter /\ ~b.isDelimiter /\ DiscoveredBefore(a, b))
                   => a.group < b.group
        /\ \A a \in DecorationSet, b \in DecorationSet :
               a.group = b.group =>
                   \E r \in AcceptedRegions :
                       /\ r.start <= a.from /\ a.to <= r.end
                       /\ r.start <= b.from /\ b.to <= r.end

\* "||a||||a||" in one window after a scroll: the regions have the ids 0, 1
C16_Witness ==
    /\ mode = "editor"
    /\ doc = RegionsDoc(2)
    /\ Len(visibleRanges) = 1
    /\ update = "viewportChanged"
    /\ Cardinality(AcceptedRegions) = 2
    /\ Groups = {0, 1}

(***************************************************************************)
(* C17.  The create-spoiler command puts "||" + S + "||" in place of the   *)
(* selection S: the text before and after the selection is unchanged,      *)
(* four characters are added, and the new buffer depends on the old buffer *)
(* and the selection alone.  This holds for every selection, the empty one *)
(* included.                                                               *)
(***************************************************************************)
C17_DirectSubstitution ==
    (mode = "editor" /\ edit.ran) =>
        LET S == SubSeq(edit.prev, edit.from + 1, edit.to) IN
        /\ Len(doc) = Len(edit.prev) + 4
        /\ SubSeq(doc, 1, edit.from) = SubSeq(edit.prev, 1, edit.from)
        /\ SubSeq(doc, edit.from + 1, edit.from + 2) = Delim
        /\ SubSeq(doc, edit.from + 3, edit.to + 2) = S
        /\ SubSeq(doc, edit.to + 3, edit.to + 4) = Delim
        /\ SubSeq(doc, edit.to + 5, Len(doc)) = SubSeq(edit.prev, edit.to + 1, Len(edit.prev))

\* a selection of one character with text on both sides
C17_Witness ==
    /\ mode = "editor"
    /\ edit.ran
    /\ Len(edit.prev) = 3
    /\ edit.from = 1
    /\ edit.to = 2
    /\ update = "docChanged"

(***************************************************************************)
(* C20.  An update flagged docChanged or viewportChanged replaces the      *)
(* decoration set by what buildDecorations gives for the view after the    *)
(* update, keeping nothing of the old set; an update with neither flag     *)
(* leaves the decoration set as it was.                                    *)
(***************************************************************************)
C20_RebuiltOnChange ==
    mode = "editor" =>
        /\ update \in {"docChanged", "viewportChanged"} =>
               decorations = buildDecorations(doc, syntax, visibleRanges).decorations
        /\ update = "other" => decorations = prevDecorations

\* a scroll that changes the decorations: a region comes into one window
C20_Witness ==
    /\ mode = "editor"
    /\ update = "viewportChanged"
    /\ prevDecorations = <<>>
    /\ Len(decorations) = 3

C19_LosslessPartition ==
    (mode = "reading" /\ lastOp = "materialize") =>
        \A c \in Calls : \A n \in Collected(c) :
            IsPartition(c.before, n, splitTextNodeByDelimiter(c.before, n, <<>>))

\* the paragraph "a||a||" was materialized: text, token, text, token
C19_Witness ==
    /\ mode = "reading"
    /\ lastOp = "materialize"
    /\ \E c \in Calls : \E n \in Collected(c) :
           /\ c.before.data[n] = <<"a", Pipe, Pipe, "a", Pipe, Pipe>>
           /\ Len(splitTextNodeByDelimiter(c.before, n, <<>>).slices) = 4

(***************************************************************************)
(* C21.  Every scan runs to completion on finite input.  An iteration of   *)
(* the loop of splitTextNodeByDelimiter either stops or goes on with a     *)
(* strictly shorter remainder, the scan position of the match loop of      *)
(* buildDecorations advances strictly with every match, and both loops     *)
(* come to their end.                                                      *)
(***************************************************************************)
C21_ScansTerminate ==
    /\ [](mode = "scan" =>
            /\ (scan.loop = "split" /\ scan.running /\ scan.slices # <<>>) =>
                   scan.measure < scan.prevMeasure
            /\ (scan.loop = "match" /\ scan.running /\ scan.st.matches # <<>>) =>
                   scan.measure > scan.prevMeasure)
    /\ (mode = "scan") ~> (mode = "scan" /\ ~scan.running)

\* the split loop has run four times on "a||a||" and stopped
C21_Witness ==
    /\ mode = "scan"
    /\ scan.loop = "split"
    /\ ~scan.running
    /\ scan.text = <<"a", Pipe, Pipe, "a", Pipe, Pipe>>
    /\ Len(scan.slices) = 4

(***************************************************************************)
(* C22.  Materialize does not corrupt the content around a region: after   *)
(* wrapSpoilers on a boundary the text under the boundary, in document     *)
(* order, is the text before the call without the two tokens of each pair; *)
(* nothing else is added, removed or reordered, the text of code, math and *)
(* existing wrappers is unchanged and stays where it was excluded, and the *)
(* text outside the boundary is untouched.                                 *)
(***************************************************************************)
C22_OnlyTokensRemoved ==
    (mode = "reading" /\ lastOp = "materialize") =>
        \A c \in Calls :
            /\ TextOf(c.after, c.element) = TextWithoutPairs(c.before, c.element)
            /\ \A t \in ExcludedTexts(c.before) :
                   /\ c.after.data[t] = c.before.data[t]
                   /\ ExcludedText(c.after, t)
            /\ \A t \in TextsOutside(c.before, c.element) :
                   c.after.data[t] = c.before.data[t]

\* a call that closed a pair around an element of code that holds a token
C22_Witness ==
    /\ mode = "reading"
    /\ lastOp = "materialize"
    /\ \E c \in Calls :
           /\ PairedTokens(c.before, c.element) # {}
           /\ \E t \in ExcludedTexts(c.before) :
                  /\ IsInclusiveAncestor(c.before, c.element, t)
                  /\ TokensFrom(c.before.data[t], 1) # <<>>
                  /\ \E w \in Nodes(c.after) :
                         c.after.tag[w] = SpoilerTag /\ IsInclusiveAncestor(c.after, w, t)
           /\ Created(c) = 1

(***************************************************************************)
(* C23.  When every mouseover of a tagged element comes after the mouseout *)
(* of the element the pointer was on, at most one group is highlighted at  *)
(* any time: the elements with the hover class have one groupId, and while *)
(* the pointer rests on no tagged element no element has the class.        *)
(***************************************************************************)
C23_OneGroupHighlighted ==
    mode = "pointer" =>
        /\ \A i \in 1..Len(els), j \in 1..Len(els) :
               (els[i].hover /\ els[j].hover) => els[i].group = els[j].group
        /\ (~pointer.moving /\ pointer.on = 0) =>
               \A i \in 1..Len(els) : ~els[i].hover

\* the pointer went from an element of group 0 to one of group 1: the three
\* elements of group 1 have the class, which those of group 0 had before
C23_Witness ==
    /\ mode = "pointer"
    /\ ~pointer.moving
    /\ event.type = "mouseover"
    /\ event.target = 1
    /\ event.related = 0
    /\ \A i \in 1..Len(els) : els[i].hover <=> els[i].group = 1
    /\ \E i \in 1..Len(els) : els[i].hover
    /\ \A i \in 1..Len(prevEls) : ~prevEls[i].hover

(***************************************************************************)
(* C24.  While the plugin is loaded, after loadSettings and after every    *)
(* change of the live-mode setting, the registry holds the live-mode       *)
(* extension if and only if settings.enableEditorMode is true, and every   *)
(* change the setting toggle makes to the registry is followed by          *)
(* workspace.updateOptions(): the editors run with the registry as it is.  *)
(***************************************************************************)
C24_RegistryFollowsSetting ==
    (mode = "plugin" /\ loaded) =>
        /\ includes(editorPlugins, spoilerEditorPlugin) <=> settings.enableEditorMode
        /\ (pluginOp.name = "toggleEditorMode" /\ editorPlugins # prevPlugins) =>
               applied = editorPlugins

\* the setting was switched off while the extension was registered and the
\* editors ran with it
C24_Witness ==
    /\ mode = "plugin"
    /\ loaded
    /\ pluginOp.name = "toggleEditorMode"
    /\ ~settings.enableEditorMode
    /\ includes(prevPlugins, spoilerEditorPlugin)
    /\ editorPlugins = <<>>
    /\ applied = <<>>

(***************************************************************************)
(* C25.  After onload and after every change of a style setting (the       *)
(* custom style switch, the colour, the blur amount) the workspace         *)
(* container has the custom-enabled class and the five custom style        *)
(* properties if and only if settings.enableCustomStyle is true;           *)
(* applyCustomStyle with the setting off leaves none of them, and          *)
(* clearCustomStyle is idempotent.                                         *)
(***************************************************************************)
C25_StyleFollowsSetting ==
    (mode = "style" /\ loaded
        /\ pluginOp.name \in {"onload", "toggleCustomStyle", "changeColor",
                              "resetColor", "changeBlur"})
    => /\ settings.enableCustomStyle => ({CustomClass} \cup StyleProps) \subseteq markers
       /\ ~settings.enableCustomStyle => markers \cap ({CustomClass} \cup StyleProps) = {}
       /\ ~settings.enableCustomStyle =>
              applyCustomStyle({CustomClass} \cup StyleProps, settings) = {}
       /\ clearCustomStyle(clearCustomStyle(markers)) = clearCustomStyle(markers)
       /\ clearCustomStyle(clearCustomStyle(preview.markers))
              = clearCustomStyle(preview.markers)

\* the blur amount was changed with the custom style on and the reveal-all
\* class on the container: class and properties are there
C25_Witness ==
    /\ mode = "style"
    /\ pluginOp.name = "changeBlur"
    /\ settings.enableCustomStyle
    /\ settings.blurAmount = 10
    /\ settings.customColor = "#ff0000"
    /\ markers = {RevealedClass, CustomClass} \cup StyleProps
    /\ preview.attached

====
